---- MODULE Spec2Model ----
(***************************************************************************)
(* DBEngine: an append-only log of records indexed by a sorted, paged       *)
(* on-disk index with one resident page.  The facade (open, append, get,    *)
(* updateStatus, deleteRecord) is unnamed/part_003 (dbengine.cpp); the      *)
(* index operations are unnamed/part_005; the layouts are dbengine.h.       *)
(*                                                                          *)
(* The log file is modelled byte by byte.  The index file is modelled as    *)
(* its header count plus the sequence of 10-byte IndexEntry structs that    *)
(* follow it (every index read and write of the engine is a whole number    *)
(* of entries at an entry-aligned offset).                                  *)
(***************************************************************************)
EXTENDS Integers, Sequences, FiniteSets, TLC

\* ------------------------------------------------------------------ bounds
\* Page capacity.  The program's value is 256 (dbengine.h:14); the model
\* checks a small page so that several pages and page splits are reached.
MAX_INDEX_ENTRIES == 2
\* Keys offered to append/get/deleteRecord are 1..MaxKey.
MaxKey == 3
\* The caller makes at most MaxCalls calls of the public interface in a run.
MaxCalls == 5
\* The monotonic workload appends keys out of 1..MaxMonoKey, in at most
\* MaxMonoCalls calls.
MaxMonoKey == 6
MaxMonoCalls == 7
\* The ordered-query workload makes at most MaxQueryCalls calls.
MaxQueryCalls == 6
\* The workload of appends during which a call on the index file fails
\* makes at most MaxFaultCalls calls; the one in which any backend call of
\* any operation fails makes at most MaxFaultyCalls.
MaxFaultCalls == 4
MaxFaultyCalls == 3

\* ------------------------------------------------------------------ program constants
INTERNAL_STATUS_DELETED == 1
DBHeaderSize == 6
LogEntryHeaderSize == 9
DB_MAGIC_NUMBER == 1397182284
DB_VERSION == 1
\* sizeof(_indexCount), all there is of a header in the index file, and
\* sizeof(IndexEntry), packed.
IndexHeaderSize == 4
IndexEntrySize == 10
STATUS_UPLOADED == 1
STATUS_CONFIRMED == 2
\* uint32_t values are held as the integer the same 32 bits give when read
\* as two's complement (the checker's integers are 32 bits wide and signed):
\* 0 .. 2^31 - 1 are themselves, 2^31 .. 2^32 - 1 are -2^31 .. -1.
UINT32_MAX == -1
INT32_MAX == 2147483647

Keys == 1..MaxKey
MonoKeys == 1..MaxMonoKey
AllKeys == Keys \cup MonoKeys
\* Payloads offered to append: different lengths and different bytes.
Payloads == {<<7>>, <<8, 9>>}
\* The caller's buffer sizes: one byte, or room for every payload offered.
BufferSizes == {1, 2}
FullBuffer == {n \in BufferSizes : \A p \in Payloads : Len(p) <= n}
\* User status values offered to updateStatus.
StatusValues == {170}
\* The record type passed to append (testapp passes 1).
RecordTypes == {1}
\* Values an uninitialised internal_status byte may hold: the DELETED bit and
\* one of the other bits, each set or clear.
Garbage == 0..3

MIN(a, b) == IF a < b THEN a ELSE b

\* ------------------------------------------------------------------ codec
\* Little-endian encoding of v in n bytes, and its inverse.
LE(v, n) == [i \in 1..n |-> (v \div (256 ^ (i - 1))) % 256]

RECURSIVE FromLE(_)
FromLE(bs) == IF bs = <<>> THEN 0 ELSE bs[1] + 256 * FromLE(Tail(bs))

\* struct DBHeader { magic:u32, version:u16 }, packed.
DBHeaderBytes == LE(DB_MAGIC_NUMBER, 4) \o LE(DB_VERSION, 2)

\* struct LogEntryHeader { recordType:u8, length:u16, key:u32, status:u8,
\* internal_status:u8 }, packed.
LogEntryHeaderBytes(h) ==
    <<h.recordType>> \o LE(h.length, 2) \o LE(h.key, 4) \o <<h.status, h.internal_status>>

ParseLogEntryHeader(bs) ==
    [recordType |-> bs[1],
     length |-> FromLE(SubSeq(bs, 2, 3)),
     key |-> FromLE(SubSeq(bs, 4, 7)),
     status |-> bs[8],
     internal_status |-> bs[9]]

\* struct IndexEntry { key, offset, status, internal_status }.
IndexEntry(k, o, s, i) == [key |-> k, offset |-> o, status |-> s, internal_status |-> i]
ZeroEntry == IndexEntry(0, 0, 0, 0)

\* ------------------------------------------------------------------ backend
\* fread of n bytes at byte offset off of a file: what is there, maybe fewer.
FileRead(bytes, off, n) ==
    IF off >= Len(bytes) THEN <<>> ELSE SubSeq(bytes, off + 1, MIN(off + n, Len(bytes)))

\* fseek(off) then fwrite(data) on a file: overwrites in place and extends
\* the file; a gap left by seeking past the end reads as zero bytes.
FileWrite(bytes, off, data, zero) ==
    LET end == IF off + Len(data) > Len(bytes) THEN off + Len(data) ELSE Len(bytes)
    IN [i \in 1..end |->
          IF i > off /\ i <= off + Len(data) THEN data[i - off]
          ELSE IF i <= Len(bytes) THEN bytes[i]
          ELSE zero]

\* ------------------------------------------------------------------ state
VARIABLES
    logFile,            \* the log file's bytes (<<>>: the file does not exist)
    indexFile,          \* [exists, count, entries]: the index file
    indexCount,         \* _indexCount
    indexPage,          \* _indexPage[MAX_INDEX_ENTRIES], slots 1..P
    currentPageNumber,  \* _currentPageNumber
    pageLoaded,         \* _pageLoaded
    pageDirty,          \* _pageDirty
    handles,            \* [log, index]: the mode each backend's open file was
                        \* opened in ("": the backend holds no open file)
    ret,                \* the last public call and what it returned
    hist                \* history: what the caller has done so far

vars == <<logFile, indexFile, indexCount, indexPage, currentPageNumber,
          pageLoaded, pageDirty, handles, ret, hist>>

\* WindowsFileHandler: _currentMode of _logHandler and of _indexHandler, ""
\* while _file is NULL; reused: some open has returned true on a file that
\* an earlier open had left open.  This is the state with both closed.
NoHandles == [log |-> "", index |-> "", reused |-> FALSE]

\* The engine and its two files as one value threaded through the helpers.
\* fault names the backend call that fails during the operation in progress
\* (NoFault: the backend works).
NoFault == ""

Eng == [logFile |-> logFile, indexFile |-> indexFile, indexCount |-> indexCount,
        indexPage |-> indexPage, currentPageNumber |-> currentPageNumber,
        pageLoaded |-> pageLoaded, pageDirty |-> pageDirty, handles |-> handles,
        fault |-> NoFault]

\* The backend call named site fails: an open returns false, a seek returns
\* false, a read delivers no byte, a write writes no byte.
Fails(e, site) == e.fault = site

\* The engine e performing an operation during which the call fault fails.
Faulty(e, fault) == [e EXCEPT !.fault = fault]

P == MAX_INDEX_ENTRIES

\* WindowsFileHandler::open on the handler h ("log": _logHandler, "index":
\* _indexHandler) returns true when the fopen succeeds or when a file is
\* already open, which is reused whatever the mode asked for.  This is the
\* handler after an open that returned true: _currentMode is the mode of
\* the fopen, or stays what it was when an open file is reused.
HandlerOpen(e, h, mode) ==
    [e EXCEPT !.handles =
        [@ EXCEPT ![h] = IF @ = NoHandles[h] THEN mode ELSE @,
                  !.reused = @ \/ e.handles[h] # NoHandles[h]]]

\* WindowsFileHandler::close on the handler h.
HandlerClose(e, h) == [e EXCEPT !.handles[h] = NoHandles[h]]

\* Binds the value v to the parameter of F: "v's result is then used as ...".
With(v, F(_)) == F(v)

\* ------------------------------------------------------------------ index file
\* The count of an index file too short to hold one (a file just created or
\* truncated by an open in mode "wb").
NoCount == -1

\* The index file as fopen(..., "index", "wb") leaves it: it exists and is empty.
EmptyIndexFile == [exists |-> TRUE, count |-> NoCount, entries |-> <<>>]

\* saveIndexHeader that returns from a failed seek or write without closing
\* the index backend.
saveIndexHeaderUnclosed(e) ==
    With(IF \/ e.indexFile.exists /\ ~Fails(e, "saveIndexHeader.open")
            \/ e.handles.index # ""
         THEN [e |-> HandlerOpen(e, "index", "rb+"), ok |-> TRUE]
         ELSE IF Fails(e, "saveIndexHeader.create") THEN [e |-> e, ok |-> FALSE]
         ELSE [e |-> HandlerOpen([e EXCEPT !.indexFile = EmptyIndexFile],
                                 "index", "wb"),
               ok |-> TRUE], LAMBDA o :
        IF ~o.ok THEN o
        ELSE IF Fails(e, "saveIndexHeader.seek") \/ Fails(e, "saveIndexHeader.write")
        THEN [e |-> o.e, ok |-> FALSE]
        ELSE [e |-> HandlerClose([o.e EXCEPT !.indexFile.count = e.indexCount],
                                 "index"),
              ok |-> TRUE])

\* saveIndexHeader(): open "rb+" (else "wb", which creates or truncates the
\* file), seek 0, write _indexCount.  Result: [e, ok].
saveIndexHeader(e) ==
    With(IF \/ e.indexFile.exists /\ ~Fails(e, "saveIndexHeader.open")
            \/ e.handles.index # ""
         THEN [e |-> HandlerOpen(e, "index", "rb+"), ok |-> TRUE]
         ELSE IF Fails(e, "saveIndexHeader.create") THEN [e |-> e, ok |-> FALSE]
         ELSE [e |-> HandlerOpen([e EXCEPT !.indexFile = EmptyIndexFile],
                                 "index", "wb"),
               ok |-> TRUE], LAMBDA o :
        IF ~o.ok THEN o
        ELSE IF Fails(e, "saveIndexHeader.seek") \/ Fails(e, "saveIndexHeader.write")
        THEN [e |-> HandlerClose(o.e, "index"), ok |-> FALSE]
        ELSE [e |-> HandlerClose([o.e EXCEPT !.indexFile.count = e.indexCount],
                                 "index"),
              ok |-> TRUE])

\* loadIndexHeader(): a file that cannot be opened gives _indexCount = 0 and
\* success; a short read fails.  Result: [e, ok].
loadIndexHeader(e) ==
    IF ~(\/ e.indexFile.exists /\ ~Fails(e, "loadIndexHeader.open")
         \/ e.handles.index # "")
    THEN [e |-> [e EXCEPT !.indexCount = 0], ok |-> TRUE]
    ELSE IF e.indexFile.count = NoCount \/ Fails(e, "loadIndexHeader.read")
    THEN [e |-> HandlerClose(HandlerOpen(e, "index", "rb"), "index"), ok |-> FALSE]
    ELSE [e |-> HandlerClose(HandlerOpen(
                    [e EXCEPT !.indexCount = e.indexFile.count], "index", "rb"), "index"),
          ok |-> TRUE]

\* Number of entries page pageNumber holds according to _indexCount.
EntriesInPage(count, pageNumber) ==
    IF count > pageNumber * P THEN MIN(P, count - pageNumber * P) ELSE 0

\* Writes n entries of buffer at entry position pos of the index file; the
\* bytes of a gap before them, a missing header included, read as zero.
WriteEntries(e, pos, buffer, n) ==
    IF n = 0 THEN e
    ELSE [e EXCEPT
            !.indexFile.entries =
                FileWrite(e.indexFile.entries, pos, SubSeq(buffer, 1, n), ZeroEntry),
            !.indexFile.count = IF @ = NoCount THEN 0 ELSE @]

\* flushIndexPage that leaves the header of the index file as it is.
flushIndexPageNoHeader(e) ==
    IF ~e.pageDirty THEN [e |-> e, ok |-> TRUE]
    ELSE IF ~e.indexFile.exists THEN [e |-> e, ok |-> FALSE]
    ELSE [e |-> [HandlerClose(HandlerOpen(
                    WriteEntries(e, e.currentPageNumber * P, e.indexPage,
                                 EntriesInPage(e.indexCount, e.currentPageNumber)),
                    "index", "rb+"), "index")
                    EXCEPT !.pageDirty = FALSE],
          ok |-> TRUE]

\* flushIndexPage(): if dirty, write the resident page's occupied slots at the
\* page's offset, then rewrite the header, then clear dirty.
\* Result: [e, ok].
flushIndexPage(e) ==
    IF ~e.pageDirty THEN [e |-> e, ok |-> TRUE]
    ELSE IF ~(\/ e.indexFile.exists /\ ~Fails(e, "flushIndexPage.open")
              \/ e.handles.index # "")
    THEN [e |-> e, ok |-> FALSE]
    ELSE IF Fails(e, "flushIndexPage.seek") \/ Fails(e, "flushIndexPage.write")
    THEN [e |-> HandlerClose(HandlerOpen(e, "index", "rb+"), "index"), ok |-> FALSE]
    ELSE With(saveIndexHeader(HandlerClose(HandlerOpen(
                WriteEntries(e, e.currentPageNumber * P, e.indexPage,
                             EntriesInPage(e.indexCount, e.currentPageNumber)),
                "index", "rb+"), "index")), LAMBDA h :
            IF ~h.ok THEN h
            ELSE [e |-> [h.e EXCEPT !.pageDirty = FALSE], ok |-> TRUE])

\* The read of loadIndexPage into _indexPage: got is what the file delivered;
\* a short read zero-fills up to the expected number only, and the slots past
\* it keep what the buffer held before.
ReadIntoPage(page, got, expectedEntries) ==
    [i \in 1..P |->
        IF i <= Len(got) THEN got[i]
        ELSE IF i <= expectedEntries THEN ZeroEntry
        ELSE page[i]]

\* What the read of loadIndexPage delivers: the entries the file holds of
\* the page, none when the read fails.
PageRead(e, pageNumber, expectedEntries) ==
    IF Fails(e, "loadIndexPage.read") THEN <<>>
    ELSE FileRead(e.indexFile.entries, pageNumber * P, expectedEntries)

\* loadIndexPage without the flush: a dirty resident page is replaced
\* unwritten.
loadIndexPageNoFlush(e, pageNumber) ==
    IF ~(\/ e.indexFile.exists /\ ~Fails(e, "loadIndexPage.open")
         \/ e.handles.index # "")
    THEN [e |-> e, ok |-> FALSE]
    ELSE IF Fails(e, "loadIndexPage.seek")
    THEN [e |-> HandlerClose(HandlerOpen(e, "index", "rb"), "index"), ok |-> FALSE]
    ELSE With(EntriesInPage(e.indexCount, pageNumber), LAMBDA expectedEntries :
        [e |-> [HandlerClose(HandlerOpen(e, "index", "rb"), "index") EXCEPT
                  !.indexPage = ReadIntoPage(e.indexPage,
                                    PageRead(e, pageNumber, expectedEntries),
                                    expectedEntries),
                  !.currentPageNumber = pageNumber,
                  !.pageLoaded = TRUE,
                  !.pageDirty = FALSE],
         ok |-> TRUE])

\* loadIndexPage(pageNumber): flush, then read the page.  Result: [e, ok].
loadIndexPage(e, pageNumber) ==
    With(flushIndexPage(e), LAMBDA f :
        IF \/ ~f.ok
           \/ ~(\/ f.e.indexFile.exists /\ ~Fails(f.e, "loadIndexPage.open")
                \/ f.e.handles.index # "")
        THEN [e |-> f.e, ok |-> FALSE]
        ELSE IF Fails(e, "loadIndexPage.seek")
        THEN [e |-> HandlerClose(HandlerOpen(f.e, "index", "rb"), "index"), ok |-> FALSE]
        ELSE With(EntriesInPage(f.e.indexCount, pageNumber), LAMBDA expectedEntries :
            [e |-> [HandlerClose(HandlerOpen(f.e, "index", "rb"), "index") EXCEPT
                      !.indexPage = ReadIntoPage(f.e.indexPage,
                                        PageRead(f.e, pageNumber, expectedEntries),
                                        expectedEntries),
                      !.currentPageNumber = pageNumber,
                      !.pageLoaded = TRUE,
                      !.pageDirty = FALSE],
             ok |-> TRUE]))

\* Makes page resident (the common head of getIndexEntry, setIndexEntry and
\* insertIndexEntry).
EnsurePage(e, page) ==
    IF ~e.pageLoaded \/ e.currentPageNumber # page
    THEN loadIndexPage(e, page)
    ELSE [e |-> e, ok |-> TRUE]

\* getIndexEntry(globalIndex, entry).  Result: [e, ok, entry].
getIndexEntry(e, globalIndex) ==
    With(EnsurePage(e, globalIndex \div P), LAMBDA r :
        IF ~r.ok THEN [e |-> r.e, ok |-> FALSE, entry |-> ZeroEntry]
        ELSE [e |-> r.e, ok |-> TRUE, entry |-> r.e.indexPage[(globalIndex % P) + 1]])

\* setIndexEntry(globalIndex, entry).  Result: [e, ok].
setIndexEntry(e, globalIndex, entry) ==
    With(EnsurePage(e, globalIndex \div P), LAMBDA r :
        IF ~r.ok THEN [e |-> r.e, ok |-> FALSE]
        ELSE [e |-> [r.e EXCEPT !.indexPage[(globalIndex % P) + 1] = entry,
                                !.pageDirty = TRUE],
              ok |-> TRUE])

\* searchIndex(key, foundIndex): binary search over [0, _indexCount), every
\* probe through getIndexEntry.  Result: [e, found, index].
RECURSIVE searchLoop(_, _, _, _)
searchLoop(e, key, low, high) ==
    IF low >= high THEN [e |-> e, found |-> FALSE, index |-> 0]
    ELSE With((low + high) \div 2, LAMBDA mid :
         With(getIndexEntry(e, mid), LAMBDA g :
            IF ~g.ok THEN [e |-> g.e, found |-> FALSE, index |-> 0]
            ELSE IF g.entry.key = key THEN [e |-> g.e, found |-> TRUE, index |-> mid]
            ELSE IF g.entry.key < key THEN searchLoop(g.e, key, mid + 1, high)
            ELSE searchLoop(g.e, key, low, mid)))

searchIndex(e, key) == searchLoop(e, key, 0, e.indexCount)

\* findIndexEntry that passes over entries with the DELETED bit set.
findIndexEntryLive(e, key) ==
    With(searchIndex(e, key), LAMBDA s :
        IF ~s.found THEN [e |-> s.e, found |-> FALSE, offset |-> 0]
        ELSE With(getIndexEntry(s.e, s.index), LAMBDA g :
                [e |-> g.e,
                 found |-> g.ok /\ (g.entry.internal_status \div INTERNAL_STATUS_DELETED) % 2 = 0,
                 offset |-> g.entry.offset]))

\* findIndexEntry(key, offset).  Result: [e, found, offset].
findIndexEntry(e, key) ==
    With(searchIndex(e, key), LAMBDA s :
        IF ~s.found THEN [e |-> s.e, found |-> FALSE, offset |-> 0]
        ELSE With(getIndexEntry(s.e, s.index), LAMBDA g :
                [e |-> g.e, found |-> g.ok, offset |-> g.entry.offset]))

\* ------------------------------------------------------------------ ordered insert
\* memmove(&a[from + 1], &a[from], n * sizeof(IndexEntry)) on slots numbered
\* from 0 (a is a 1-based sequence here).
ShiftRight(a, from, n) ==
    [j \in 1..Len(a) |-> IF j - 1 > from /\ j - 1 <= from + n THEN a[j - 1] ELSE a[j]]

\* The three stores "a[slot].key = key; .offset = offset; .status = status":
\* the slot's internal_status byte is not written.
StoreNew(a, slot, key, offset, status) ==
    [a EXCEPT ![slot + 1] = IndexEntry(key, offset, status, a[slot + 1].internal_status)]

\* CountInserted without the increment: the entry is stored and the page
\* marked, the count forgotten.
CountInsertedNot(e) == [e EXCEPT !.pageDirty = TRUE]

\* "_indexCount++; _pageDirty = true;": one new entry inserted.
CountInserted(e) == [e EXCEPT !.indexCount = e.indexCount + 1, !.pageDirty = TRUE]

\* memmove then the three stores: the new entry put at slot of a, the n
\* entries from slot on moved up by one.
InsertAt(a, slot, n, key, offset, status) ==
    StoreNew(ShiftRight(a, slot, n), slot, key, offset, status)

\* newPageBuffer after the memcpy of the second half of the page; the slots
\* past the copy are never written to the file.
UpperHalf(page, splitIndex) ==
    [j \in 1..P |-> IF j <= P - splitIndex THEN page[splitIndex + j] ELSE ZeroEntry]

\* The open of splitPageAndInsert for the new page: "rb+", else "wb", which
\* creates or truncates the index file.  Result: [e, ok].
OpenForNewPage(e) ==
    IF \/ e.indexFile.exists /\ ~Fails(e, "splitPageAndInsert.open")
       \/ e.handles.index # ""
    THEN [e |-> HandlerOpen(e, "index", "rb+"), ok |-> TRUE]
    ELSE IF Fails(e, "splitPageAndInsert.create") THEN [e |-> e, ok |-> FALSE]
    ELSE [e |-> HandlerOpen([e EXCEPT !.indexFile = EmptyIndexFile],
                            "index", "wb"),
          ok |-> TRUE]

\* The tail of splitPageAndInsert: flush the resident page, write the first
\* MAX_INDEX_ENTRIES - splitIndex entries of newPageBuffer as page
\* targetPage + 1, rewrite the header.  Result: [e, ok].
WriteSplit(e, targetPage, newPageBuffer, splitIndex) ==
    With(flushIndexPage(e), LAMBDA f :
        IF ~f.ok THEN [e |-> f.e, ok |-> FALSE]
        ELSE With(OpenForNewPage(f.e), LAMBDA o :
            IF ~o.ok THEN o
            ELSE IF \/ Fails(e, "splitPageAndInsert.seek")
                    \/ Fails(e, "splitPageAndInsert.write")
            THEN [e |-> HandlerClose(o.e, "index"), ok |-> FALSE]
            ELSE With(saveIndexHeader(HandlerClose(
                        WriteEntries(o.e, (targetPage + 1) * P, newPageBuffer,
                                     P - splitIndex), "index")), LAMBDA h :
                    IF ~h.ok THEN h
                    ELSE [e |-> [h.e EXCEPT !.pageDirty = FALSE], ok |-> TRUE])))

\* splitPageAndInsert(targetPage, offsetInPage, key, recordOffset, status).
\* The resident page is targetPage and is full.  Result: [e, ok].
splitPageAndInsert(e, targetPage, offsetInPage, key, recordOffset, status) ==
    With(P \div 2, LAMBDA splitIndex :
      With(UpperHalf(e.indexPage, splitIndex), LAMBDA newPageBuffer :
        IF offsetInPage < splitIndex
        THEN \* the new entry belongs in the current page
             WriteSplit(CountInserted(
                            [e EXCEPT !.indexPage = InsertAt(e.indexPage, offsetInPage,
                                                             splitIndex - offsetInPage,
                                                             key, recordOffset, status)]),
                        targetPage, newPageBuffer, splitIndex)
        ELSE \* the new entry belongs in the new page
             WriteSplit(CountInserted(e),
                        targetPage,
                        InsertAt(newPageBuffer, offsetInPage - splitIndex,
                                 (P - splitIndex) - (offsetInPage - splitIndex),
                                 key, recordOffset, status),
                        splitIndex)))

\* The lower-bound binary search at the head of insertIndexEntry.
\* Result: [e, ok, pos].
RECURSIVE insertPosLoop(_, _, _, _)
insertPosLoop(e, key, low, high) ==
    IF low >= high THEN [e |-> e, ok |-> TRUE, pos |-> low]
    ELSE With((low + high) \div 2, LAMBDA mid :
         With(getIndexEntry(e, mid), LAMBDA g :
            IF ~g.ok THEN [e |-> g.e, ok |-> FALSE, pos |-> 0]
            ELSE IF g.entry.key < key THEN insertPosLoop(g.e, key, mid + 1, high)
            ELSE insertPosLoop(g.e, key, low, mid)))

\* One uniqueness check of insertIndexEntry: when guard holds, the entry at
\* globalIndex is read and must not carry key.  Result: [e, ok].
UniqueAt(e, guard, globalIndex, key) ==
    IF ~guard THEN [e |-> e, ok |-> TRUE]
    ELSE With(getIndexEntry(e, globalIndex), LAMBDA g :
            [e |-> g.e, ok |-> g.ok /\ g.entry.key # key])

\* The insertion with a split taken as soon as the insertion position is the
\* first slot of a page after the first.
InsertIntoPageEager(e, pos, key, offset, status) ==
    With(pos \div P, LAMBDA targetPage :
    With(pos % P, LAMBDA offsetInPage :
    With(MIN(P, e.indexCount - (pos \div P) * P), LAMBDA entriesInPage :
        IF entriesInPage < P /\ ~(offsetInPage = 0 /\ pos > 0)
        THEN With(CountInserted(
                    [e EXCEPT !.indexPage = InsertAt(e.indexPage, offsetInPage,
                                                     entriesInPage - offsetInPage,
                                                     key, offset, status)]), LAMBDA e1 :
             With(IF entriesInPage + 1 = P THEN flushIndexPage(e1)
                  ELSE [e |-> e1, ok |-> TRUE], LAMBDA f :
                [e |-> f.e, ok |-> f.ok, split |-> FALSE, pos |-> pos]))
        ELSE With(splitPageAndInsert(e, targetPage, offsetInPage, key, offset, status),
                  LAMBDA sp :
                [e |-> sp.e, ok |-> sp.ok, split |-> TRUE, pos |-> pos]))))

\* The insertion that never flushes the page it has filled.
InsertIntoPageLazy(e, pos, key, offset, status) ==
    With(pos \div P, LAMBDA targetPage :
    With(pos % P, LAMBDA offsetInPage :
    With(MIN(P, e.indexCount - (pos \div P) * P), LAMBDA entriesInPage :
        IF entriesInPage < P
        THEN [e |-> CountInserted(
                      [e EXCEPT !.indexPage = InsertAt(e.indexPage, offsetInPage,
                                                       entriesInPage - offsetInPage,
                                                       key, offset, status)]),
              ok |-> TRUE, split |-> FALSE, pos |-> pos]
        ELSE With(splitPageAndInsert(e, targetPage, offsetInPage, key, offset, status),
                  LAMBDA sp :
                [e |-> sp.e, ok |-> sp.ok, split |-> TRUE, pos |-> pos]))))

\* The insertion proper, the target page being resident.
\* Result: [e, ok, split, pos].
InsertIntoPage(e, pos, key, offset, status) ==
    With(pos \div P, LAMBDA targetPage :
    With(pos % P, LAMBDA offsetInPage :
    With(MIN(P, e.indexCount - (pos \div P) * P), LAMBDA entriesInPage :
        IF entriesInPage < P
        THEN \* there is room in the current page
             With(CountInserted(
                    [e EXCEPT !.indexPage = InsertAt(e.indexPage, offsetInPage,
                                                     entriesInPage - offsetInPage,
                                                     key, offset, status)]), LAMBDA e1 :
             With(IF entriesInPage + 1 = P THEN flushIndexPage(e1)
                  ELSE [e |-> e1, ok |-> TRUE], LAMBDA f :
                [e |-> f.e, ok |-> f.ok, split |-> FALSE, pos |-> pos]))
        ELSE \* the target page is full
             With(splitPageAndInsert(e, targetPage, offsetInPage, key, offset, status),
                  LAMBDA sp :
                [e |-> sp.e, ok |-> sp.ok, split |-> TRUE, pos |-> pos]))))

\* insertIndexEntry(key, offset, status).  Result: [e, ok, split, pos].
insertIndexEntry(e, key, offset, status) ==
    With(insertPosLoop(e, key, 0, e.indexCount), LAMBDA l :
      IF ~l.ok THEN [e |-> l.e, ok |-> FALSE, split |-> FALSE, pos |-> 0]
      ELSE
        With(UniqueAt(l.e, l.pos < l.e.indexCount, l.pos, key), LAMBDA c1 :
          IF ~c1.ok THEN [e |-> c1.e, ok |-> FALSE, split |-> FALSE, pos |-> 0]
          ELSE
            With(UniqueAt(c1.e, l.pos > 0, l.pos - 1, key), LAMBDA c2 :
              IF ~c2.ok THEN [e |-> c2.e, ok |-> FALSE, split |-> FALSE, pos |-> 0]
              ELSE
                With(EnsurePage(c2.e, l.pos \div P), LAMBDA r :
                  IF ~r.ok THEN [e |-> r.e, ok |-> FALSE, split |-> FALSE, pos |-> 0]
                  ELSE InsertIntoPage(r.e, l.pos, key, offset, status)))))

\* ------------------------------------------------------------------ log file
IsDeleted(internal_status) == (internal_status \div INTERNAL_STATUS_DELETED) % 2 = 1

\* internal_status | INTERNAL_STATUS_DELETED
SetDeleted(internal_status) ==
    IF IsDeleted(internal_status) THEN internal_status
    ELSE internal_status + INTERNAL_STATUS_DELETED

\* saveDBHeader(): open "rb+" (else "wb+", which creates or truncates the
\* file), seek 0, write the DBHeader.  Result: [e, ok].  The seek and the
\* write on a file just created are taken to succeed: an empty log file is
\* not told from a missing one.
saveDBHeader(e) ==
    IF \/ e.logFile # <<>> /\ ~Fails(e, "saveDBHeader.open")
       \/ e.handles.log # ""
    THEN IF Fails(e, "saveDBHeader.seek") \/ Fails(e, "saveDBHeader.write")
         THEN [e |-> HandlerClose(HandlerOpen(e, "log", "rb+"), "log"), ok |-> FALSE]
         ELSE [e |-> HandlerClose(HandlerOpen(
                        [e EXCEPT !.logFile = FileWrite(e.logFile, 0, DBHeaderBytes, 0)],
                        "log", "rb+"), "log"),
               ok |-> TRUE]
    ELSE IF Fails(e, "saveDBHeader.create") THEN [e |-> e, ok |-> FALSE]
    ELSE [e |-> HandlerClose(HandlerOpen([e EXCEPT !.logFile = DBHeaderBytes],
                                         "log", "wb+"), "log"),
          ok |-> TRUE]

\* loadDBHeader(): read and validate the DBHeader.  Result: [e, ok].
HeaderValid(got) ==
    /\ Len(got) = DBHeaderSize
    /\ FromLE(SubSeq(got, 1, 4)) = DB_MAGIC_NUMBER
    /\ FromLE(SubSeq(got, 5, 6)) = DB_VERSION

loadDBHeader(e) ==
    IF ~(\/ e.logFile # <<>> /\ ~Fails(e, "loadDBHeader.open")
         \/ e.handles.log # "")
    THEN [e |-> e, ok |-> FALSE]
    ELSE [e |-> HandlerClose(HandlerOpen(e, "log", "rb"), "log"),
          ok |-> /\ ~Fails(e, "loadDBHeader.read")
                 /\ HeaderValid(FileRead(e.logFile, 0, DBHeaderSize))]

\* The loop of validateIndex over the resident page 0: no key greater than
\* its successor among the first entries slots.
PageSorted(page, entries) ==
    \A i \in 1..(entries - 1) : ~(page[i].key > page[i + 1].key)

\* validateIndex().  Result: [e, ok].
validateIndex(e) ==
    IF e.indexCount = 0 THEN [e |-> e, ok |-> TRUE]
    ELSE With(loadIndexPage(e, 0), LAMBDA l :
            IF ~l.ok THEN [e |-> l.e, ok |-> FALSE]
            ELSE [e |-> l.e,
                  ok |-> PageSorted(l.e.indexPage, MIN(P, l.e.indexCount))])

\* loadIndex() as dbBuildIndex(): load the header, create the file when the
\* count is 0, validate page 0; the result of loading the header is
\* returned at the end.  Result: [e, ok].
loadIndex(e) ==
    With(loadIndexHeader(e), LAMBDA result :
    With(IF result.e.indexCount = 0 THEN saveIndexHeader(result.e)
         ELSE [e |-> result.e, ok |-> TRUE], LAMBDA h :
        IF ~h.ok THEN h
        ELSE With(validateIndex(h.e), LAMBDA v :
                [e |-> v.e, ok |-> v.ok /\ result.ok])))

\* open(logFileName, indexFileName): reset the counters and flags, load the
\* log header or write a new one, load the index.  Result: [e, ok].
open(e) ==
    With([e EXCEPT !.indexCount = 0, !.pageLoaded = FALSE,
                   !.pageDirty = FALSE, !.currentPageNumber = 0], LAMBDA e0 :
      With(loadDBHeader(e0), LAMBDA l :
        IF l.ok THEN loadIndex(l.e)
        ELSE With(saveDBHeader(l.e), LAMBDA h :
                IF ~h.ok THEN h ELSE loadIndex(h.e))))

\* The result record of append.
AppendResult(e, ok, path, offset, index) ==
    [e |-> e, ok |-> ok, path |-> path, offset |-> offset, index |-> index]

\* The log file as append's open leaves it: "r+b", or created by "wb+" with
\* a DBHeader written.
OpenLogForAppend(log) ==
    IF log = <<>> THEN FileWrite(<<>>, 0, DBHeaderBytes, 0) ELSE log

\* seekToEnd(), then the LogEntryHeader {recordType, length, key, 0, 0} and
\* the payload written at the end of the log.
WriteRecord(log, key, recordType, record) ==
    log \o LogEntryHeaderBytes([recordType |-> recordType, length |-> Len(record),
                                key |-> key, status |-> 0, internal_status |-> 0])
        \o record

\* The reuse branch of append: the entry at foundIndex gets the new offset
\* and internal_status 0.  A failure here leaves the record just written
\* without an index entry ("orphan").
ReuseEntry(e, foundIndex, offset) ==
    With(getIndexEntry(e, foundIndex), LAMBDA g :
        IF ~g.ok THEN AppendResult(g.e, FALSE, "orphan", offset, foundIndex)
        ELSE With(setIndexEntry(g.e, foundIndex,
                        [g.entry EXCEPT !.offset = offset, !.internal_status = 0]),
                  LAMBDA w :
                AppendResult(w.e, w.ok, IF w.ok THEN "reuse" ELSE "orphan",
                             offset, foundIndex)))

\* The fresh-insert branch of append.
InsertEntry(e, key, offset) ==
    With(insertIndexEntry(e, key, offset, 0), LAMBDA i :
        AppendResult(i.e, i.ok,
                     IF ~i.ok THEN "orphan" ELSE IF i.split THEN "split" ELSE "insert",
                     offset, i.pos))

\* The opens of append: "r+b", else "wb+", which creates or truncates the
\* log file, and then the DBHeader written (taken to succeed, see
\* saveDBHeader).  Result: [log, ok, mode], mode the one the open that
\* returned true asked for.
OpenLog(e) ==
    IF \/ e.logFile # <<>> /\ ~Fails(e, "append.open")
       \/ e.handles.log # ""
    THEN [log |-> e.logFile, ok |-> TRUE, mode |-> "r+b"]
    ELSE IF Fails(e, "append.create")
    THEN [log |-> e.logFile, ok |-> FALSE, mode |-> ""]
    ELSE [log |-> OpenLogForAppend(<<>>), ok |-> TRUE, mode |-> "wb+"]

\* append from the opening of the log file on.
AppendRecord(e, key, recordType, record, reuseEntry, foundIndex) ==
    With(OpenLog(e), LAMBDA opened :
      LET \* _logHandler.close() with log as the file's contents
          LogClosed(log) ==
            HandlerClose(HandlerOpen([e EXCEPT !.logFile = log], "log", opened.mode),
                         "log")
      IN
        IF ~opened.ok THEN AppendResult(e, FALSE, "fail", 0, 0)
        ELSE IF Fails(e, "append.seekToEnd") \/ Fails(e, "append.writeHeader")
        THEN AppendResult(LogClosed(opened.log), FALSE, "fail", 0, 0)
        ELSE IF Fails(e, "append.writeRecord")
        THEN \* the LogEntryHeader was written, the payload was not
             AppendResult(
                LogClosed(SubSeq(WriteRecord(opened.log, key, recordType, record),
                                 1, Len(opened.log) + LogEntryHeaderSize)),
                FALSE, "fail", 0, 0)
        ELSE With(LogClosed(WriteRecord(opened.log, key, recordType, record)),
                  LAMBDA e1 :
                IF reuseEntry THEN ReuseEntry(e1, foundIndex, Len(opened.log))
                ELSE InsertEntry(e1, key, Len(opened.log))))

\* append(key, recordType, record, recordSize).
\* Result: [e, ok, path, offset, index]; path names the branch taken:
\* "dup" (live duplicate), "reuse", "insert", "split", "fail".
append(e, key, recordType, record) ==
    With(searchIndex(e, key), LAMBDA s :
        IF ~s.found THEN AppendRecord(s.e, key, recordType, record, FALSE, 0)
        ELSE With(getIndexEntry(s.e, s.index), LAMBDA existing :
            IF ~existing.ok THEN AppendResult(existing.e, FALSE, "fail", 0, 0)
            ELSE IF ~IsDeleted(existing.entry.internal_status)
            THEN AppendResult(existing.e, FALSE, "dup", 0, s.index)
            ELSE AppendRecord(existing.e, key, recordType, record, TRUE, s.index)))

\* The result record of get.
GetResult(e, ok, buf, size, sizeSet) ==
    [e |-> e, ok |-> ok, buf |-> buf, size |-> size, sizeSet |-> sizeSet]

\* ReadPayload without the comparison of the length with bufferSize.
ReadPayloadUnchecked(e, offset, localHeader, bufferSize) ==
    With(FileRead(e.logFile, offset + LogEntryHeaderSize, localHeader.length),
         LAMBDA body :
            IF Len(body) # localHeader.length THEN GetResult(e, FALSE, body, 0, FALSE)
            ELSE GetResult(e, TRUE, body, localHeader.length, TRUE))

\* get after the header was read: the length check and the payload read.
ReadPayload(e, offset, localHeader, bufferSize) ==
    IF localHeader.length > bufferSize \/ Fails(e, "get.readRecord")
    THEN GetResult(e, FALSE, <<>>, 0, FALSE)
    ELSE With(FileRead(e.logFile, offset + LogEntryHeaderSize, localHeader.length),
              LAMBDA body :
            IF Len(body) # localHeader.length THEN GetResult(e, FALSE, body, 0, FALSE)
            ELSE GetResult(e, TRUE, body, localHeader.length, TRUE))

\* get(key, payloadBuffer, bufferSize, outRecordSize).
\* Result: [e, ok, buf, size, sizeSet]: buf is what was stored in
\* payloadBuffer, size what was stored in *outRecordSize if sizeSet.
get(e, key, bufferSize) ==
    With(findIndexEntry(e, key), LAMBDA f :
        IF \/ ~f.found
           \/ ~(\/ f.e.logFile # <<>> /\ ~Fails(f.e, "get.open")
                \/ f.e.handles.log # "")
        THEN GetResult(f.e, FALSE, <<>>, 0, FALSE)
        ELSE With(HandlerClose(HandlerOpen(f.e, "log", "rb"), "log"), LAMBDA c :
          \* every return below is after, or right after, _logHandler.close()
          IF Fails(e, "get.seek") \/ Fails(e, "get.readHeader")
          THEN GetResult(c, FALSE, <<>>, 0, FALSE)
          ELSE With(FileRead(c.logFile, f.offset, LogEntryHeaderSize), LAMBDA hdr :
            IF Len(hdr) # LogEntryHeaderSize THEN GetResult(c, FALSE, <<>>, 0, FALSE)
            ELSE ReadPayload(c, f.offset, ParseLogEntryHeader(hdr), bufferSize))))

\* updateStatus that changes the index entry and leaves the log as it is.
updateStatusIndexOnly(e, indexId, newStatus) ==
    IF indexId >= e.indexCount THEN [e |-> e, ok |-> FALSE]
    ELSE With(getIndexEntry(e, indexId), LAMBDA g :
        IF ~g.ok \/ g.e.logFile = <<>> THEN [e |-> g.e, ok |-> FALSE]
        ELSE setIndexEntry(g.e, indexId, [g.entry EXCEPT !.status = newStatus]))

\* updateStatus without the bounds check on indexId.
updateStatusUnchecked(e, indexId, newStatus) ==
    With(getIndexEntry(e, indexId), LAMBDA g :
        IF ~g.ok \/ g.e.logFile = <<>> THEN [e |-> g.e, ok |-> FALSE]
        ELSE setIndexEntry(
                [g.e EXCEPT !.logFile = FileWrite(g.e.logFile, g.entry.offset + 1 + 2 + 4,
                                                  <<newStatus>>, 0)],
                indexId,
                [g.entry EXCEPT !.status = newStatus]))

\* updateStatus(indexId, newStatus): the status byte of the record in the
\* log, then the entry's status.  Result: [e, ok].
updateStatus(e, indexId, newStatus) ==
    IF indexId >= e.indexCount THEN [e |-> e, ok |-> FALSE]
    ELSE With(getIndexEntry(e, indexId), LAMBDA g :
        IF \/ ~g.ok
           \/ ~(\/ g.e.logFile # <<>> /\ ~Fails(g.e, "updateStatus.open")
                \/ g.e.handles.log # "")
        THEN [e |-> g.e, ok |-> FALSE]
        ELSE IF Fails(e, "updateStatus.seek") \/ Fails(e, "updateStatus.write")
        THEN [e |-> HandlerClose(HandlerOpen(g.e, "log", "rb+"), "log"), ok |-> FALSE]
        ELSE setIndexEntry(
                HandlerClose(HandlerOpen(
                    [g.e EXCEPT !.logFile = FileWrite(g.e.logFile, g.entry.offset + 1 + 2 + 4,
                                                      <<newStatus>>, 0)],
                    "log", "rb+"), "log"),
                indexId,
                [g.entry EXCEPT !.status = newStatus]))

\* MarkDeleted that also takes the deleted entry out of the count.
MarkDeletedUncounted(e, index, entry, newInternalStatus) ==
    With(setIndexEntry(
            [e EXCEPT !.logFile = FileWrite(e.logFile, entry.offset + 1 + 2 + 4 + 1,
                                            <<newInternalStatus>>, 0)],
            index,
            [entry EXCEPT !.internal_status = newInternalStatus]), LAMBDA w :
        [e |-> [w.e EXCEPT !.indexCount = w.e.indexCount - 1],
         ok |-> w.ok, path |-> IF w.ok THEN "deleted" ELSE "fail"])

\* deleteRecord from the computation of newInternalStatus on.
MarkDeleted(e, index, entry, newInternalStatus) ==
    With(setIndexEntry(
            HandlerClose(HandlerOpen(
                [e EXCEPT !.logFile = FileWrite(e.logFile, entry.offset + 1 + 2 + 4 + 1,
                                                <<newInternalStatus>>, 0)],
                "log", "rb+"), "log"),
            index,
            [entry EXCEPT !.internal_status = newInternalStatus]), LAMBDA w :
        [e |-> w.e, ok |-> w.ok, path |-> IF w.ok THEN "deleted" ELSE "fail"])

\* deleteRecord(key).  Result: [e, ok, path]; path is "missing", "already",
\* "deleted" or "fail".
deleteRecord(e, key) ==
    With(searchIndex(e, key), LAMBDA s :
        IF ~s.found THEN [e |-> s.e, ok |-> FALSE, path |-> "missing"]
        ELSE With(getIndexEntry(s.e, s.index), LAMBDA g :
            IF ~g.ok THEN [e |-> g.e, ok |-> FALSE, path |-> "fail"]
            ELSE IF IsDeleted(g.entry.internal_status)
            THEN [e |-> g.e, ok |-> TRUE, path |-> "already"]
            ELSE IF ~(\/ g.e.logFile # <<>> /\ ~Fails(g.e, "deleteRecord.open")
                      \/ g.e.handles.log # "")
            THEN [e |-> g.e, ok |-> FALSE, path |-> "fail"]
            ELSE IF Fails(e, "deleteRecord.seek") \/ Fails(e, "deleteRecord.write")
            THEN [e |-> HandlerClose(HandlerOpen(g.e, "log", "rb+"), "log"),
                  ok |-> FALSE, path |-> "fail"]
            ELSE MarkDeleted(g.e, s.index, g.entry,
                             SetDeleted(g.entry.internal_status))))

\* btreeFindKey(key, index): the same binary search as searchIndex.
\* Result: [e, found, index].
btreeFindKey(e, key) == searchLoop(e, key, 0, e.indexCount)

\* uint32_t arithmetic on the two's complement reading: a < b, a + 1 and
\* a - 1 modulo 2^32.
ULess(a, b) == IF (a < 0) = (b < 0) THEN a < b ELSE b < 0
UInc(a) == IF a = INT32_MAX THEN (-INT32_MAX) - 1 ELSE a + 1
UDec(a) == IF a = (-INT32_MAX) - 1 THEN INT32_MAX ELSE a - 1

\* The loop of btreeLocateKey: result is the lowest probed position whose key
\* is >= key.  Result: [e, ok, result].
RECURSIVE locateLoop(_, _, _, _, _)
locateLoop(e, key, low, high, result) ==
    IF low >= high THEN [e |-> e, ok |-> TRUE, result |-> result]
    ELSE With((low + high) \div 2, LAMBDA mid :
         With(getIndexEntry(e, mid), LAMBDA g :
            IF ~g.ok THEN [e |-> g.e, ok |-> FALSE, result |-> result]
            ELSE IF ~ULess(g.entry.key, key) THEN locateLoop(g.e, key, low, mid, mid)
            ELSE locateLoop(g.e, key, mid + 1, high, result)))

\* btreeLocateKey(key, index).  Result: [e, found, index].
btreeLocateKey(e, key) ==
    With(locateLoop(e, key, 0, e.indexCount, e.indexCount), LAMBDA l :
        IF l.ok /\ l.result < l.e.indexCount
        THEN [e |-> l.e, found |-> TRUE, index |-> l.result]
        ELSE [e |-> l.e, found |-> FALSE, index |-> 0])

\* btreeNextKey that passes over entries with the DELETED bit set: the next
\* position whose entry is live.
btreeNextKeyLive(e, currentIndex) ==
    With({g \in 0..(e.indexCount - 1) :
            /\ g > currentIndex
            /\ ~((getIndexEntry(e, g).entry.internal_status
                     \div INTERNAL_STATUS_DELETED) % 2 = 1)}, LAMBDA live :
        IF live = {} THEN [found |-> FALSE, index |-> 0]
        ELSE [found |-> TRUE, index |-> CHOOSE g \in live : \A h \in live : g <= h])

\* btreeNextKey(currentIndex, nextIndex).  Result: [found, index].
btreeNextKey(e, currentIndex) ==
    IF ULess(UInc(currentIndex), e.indexCount)
    THEN [found |-> TRUE, index |-> UInc(currentIndex)]
    ELSE [found |-> FALSE, index |-> 0]

\* btreePrevKey(currentIndex, prevIndex).  Result: [found, index].
btreePrevKey(e, currentIndex) ==
    IF ULess(0, currentIndex)
    THEN [found |-> TRUE, index |-> UDec(currentIndex)]
    ELSE [found |-> FALSE, index |-> 0]

\* The loop of dbFindRecordsByStatus from position i on, results holding the
\* positions found so far.  Result: [e, results].
RECURSIVE findLoop(_, _, _, _, _)
findLoop(e, status, maxResults, i, results) ==
    IF ~(i < e.indexCount /\ Len(results) < maxResults) THEN [e |-> e, results |-> results]
    ELSE With(getIndexEntry(e, i), LAMBDA g :
            IF ~g.ok THEN [e |-> g.e, results |-> results]
            ELSE findLoop(g.e, status, maxResults, i + 1,
                          IF g.entry.status = status THEN Append(results, i)
                          ELSE results))

\* dbFindRecordsByStatus that does not stop at maxResults.
dbFindRecordsUncapped(e, status, maxResults) ==
    findLoop(e, status, e.indexCount, 0, <<>>)

\* dbFindRecordsByStatus(status, results, maxResults).  Result: [e, results].
dbFindRecordsByStatus(e, status, maxResults) == findLoop(e, status, maxResults, 0, <<>>)

\* dbGetIndexCount()
dbGetIndexCount(e) == e.indexCount

\* The log records in the file from byte offset off on: each a
\* LogEntryHeader followed by length payload bytes.
RECURSIVE CountRecords(_, _)
CountRecords(log, off) ==
    IF off + LogEntryHeaderSize > Len(log) THEN 0
    ELSE 1 + CountRecords(log, off + LogEntryHeaderSize
                + ParseLogEntryHeader(FileRead(log, off, LogEntryHeaderSize)).length)

\* ------------------------------------------------------------------ behaviour
NoPayload == <<>>

\* The engine after its constructor: counters cleared, _indexPage not
\* initialised (every byte of it is whatever the storage held); no file
\* exists yet.
Init ==
    /\ logFile = <<>>
    /\ indexFile = [exists |-> FALSE, count |-> 0, entries |-> <<>>]
    /\ indexCount = 0
    /\ \E g \in Garbage : indexPage = [i \in 1..P |-> IndexEntry(0, 0, 0, g)]
    /\ currentPageNumber = 0
    /\ pageLoaded = FALSE
    /\ pageDirty = FALSE
    /\ handles = NoHandles
    /\ ret = [op |-> "new", ok |-> TRUE, key |-> 0, path |-> "", index |-> 0,
              fault |-> NoFault]
    /\ hist = [calls |-> 0, opens |-> 0, fresh |-> 0, reused |-> 0,
               stored |-> [k \in AllKeys |-> NoPayload], orphans |-> {}]

\* Stores the engine value e back into the variables.
Commit(e) ==
    /\ logFile' = e.logFile
    /\ indexFile' = e.indexFile
    /\ indexCount' = e.indexCount
    /\ indexPage' = e.indexPage
    /\ currentPageNumber' = e.currentPageNumber
    /\ pageLoaded' = e.pageLoaded
    /\ pageDirty' = e.pageDirty
    /\ handles' = e.handles

\* What the caller remembers of its last call: the call, its key or index
\* argument, its result and the branch it took; fault is the backend call
\* that failed during it.
Ret(op, ok, key, path, index) ==
    [op |-> op, ok |-> ok, key |-> key, path |-> path, index |-> index,
     fault |-> NoFault]

\* The caller may make a call: the database was opened and the run's budget
\* of limit calls is not used up.
CanCall(limit) == hist.opens > 0 /\ hist.calls < limit

Called == [hist EXCEPT !.calls = hist.calls + 1]

\* open(): with first, only as the first call of the run (on the fresh
\* files); otherwise also later, on the files as they are on disk.  The
\* backend call fault, one of faults, fails during it.
\* ret.path is "rewritten" when the log file held a whole header that did
\* not validate, so that open wrote a new one over it.
OpenWith(faults, limit, first) ==
    /\ hist.calls < limit
    /\ first => hist.opens = 0
    /\ \E fault \in faults :
        \E r \in {open(Faulty(Eng, fault))} :
        /\ Commit(r.e)
        /\ ret' = [Ret("open", r.ok, 0,
                       IF Len(logFile) >= DBHeaderSize /\ ~loadDBHeader(Eng).ok
                       THEN "rewritten" ELSE "", 0) EXCEPT !.fault = fault]
        /\ hist' = [Called EXCEPT !.opens = hist.opens + 1]

\* open() with a working backend.
OpenCall(first) == OpenWith({NoFault}, MaxCalls, first)

\* append(key, ...) with key out of keys, during which the backend call
\* fault, one of faults, fails; with mustSucceed only the calls that return
\* success.  hist.orphans collects the keys of the appends that a failing
\* backend call made fail after their log record was written.
AppendWith(faults, keys, limit, mustSucceed) ==
    /\ CanCall(limit)
    /\ \E key \in keys, recordType \in RecordTypes, record \in Payloads, fault \in faults :
        \E r \in {append(Faulty(Eng, fault), key, recordType, record)} :
        /\ mustSucceed => r.ok
        /\ Commit(r.e)
        /\ ret' = [Ret("append", r.ok, key, r.path, r.index) EXCEPT !.fault = fault]
        /\ hist' = [Called EXCEPT
              !.fresh = IF r.ok /\ r.path \in {"insert", "split"}
                        THEN hist.fresh + 1 ELSE hist.fresh,
              !.reused = IF r.ok /\ r.path = "reuse"
                         THEN hist.reused + 1 ELSE hist.reused,
              !.stored[key] = IF r.ok THEN record ELSE hist.stored[key],
              !.orphans = IF fault # NoFault /\ r.path = "orphan"
                          THEN hist.orphans \cup {key} ELSE hist.orphans]

\* append(key, ...) with a working backend.
AppendCall(keys, limit, mustSucceed) == AppendWith({NoFault}, keys, limit, mustSucceed)

\* get(key, buffer, bufferSize, &size), bufferSize out of sizes, during
\* which the backend call fault, one of faults, fails.
GetWith(faults, keys, sizes, limit) ==
    /\ CanCall(limit)
    /\ \E key \in keys, bufferSize \in sizes, fault \in faults :
        \E r \in {get(Faulty(Eng, fault), key, bufferSize)} :
        /\ Commit(r.e)
        /\ ret' = [Ret("get", r.ok, key, "", bufferSize) EXCEPT !.fault = fault]
        /\ hist' = Called

\* get(key, buffer, bufferSize, &size) with a working backend.
GetCall(keys, sizes, limit) == GetWith({NoFault}, keys, sizes, limit)

\* What an updateStatus(indexId, newStatus) does to the status the entry
\* has: "set" (it was 0), "same" (it was newStatus), "overwrite" (it was
\* another value); "" when indexId is no position of the index.
StatusChange(e, indexId, newStatus) ==
    IF indexId >= e.indexCount THEN ""
    ELSE With(getIndexEntry(e, indexId).entry.status, LAMBDA old :
            IF old = newStatus THEN "same"
            ELSE IF old = 0 THEN "set" ELSE "overwrite")

\* updateStatus(indexId, newStatus), newStatus out of statuses, during
\* which the backend call fault, one of faults, fails; ret.key is newStatus.
UpdateStatusWith(faults, statuses, limit, mustSucceed) ==
    /\ CanCall(limit)
    /\ \E indexId \in 0..indexCount, newStatus \in statuses, fault \in faults :
        \E r \in {updateStatus(Faulty(Eng, fault), indexId, newStatus)} :
        /\ mustSucceed => r.ok
        /\ Commit(r.e)
        /\ ret' = [Ret("updateStatus", r.ok, newStatus,
                       StatusChange(Eng, indexId, newStatus), indexId)
                   EXCEPT !.fault = fault]
        /\ hist' = Called

\* updateStatus(indexId, newStatus) with a working backend.
UpdateStatusCall(statuses, mustSucceed) ==
    UpdateStatusWith({NoFault}, statuses, MaxCalls, mustSucceed)

\* deleteRecord(key), during which the backend call fault, one of faults,
\* fails.
DeleteRecordWith(faults, limit, mustSucceed) ==
    /\ CanCall(limit)
    /\ \E key \in Keys, fault \in faults :
        \E r \in {deleteRecord(Faulty(Eng, fault), key)} :
        /\ mustSucceed => r.ok
        /\ Commit(r.e)
        /\ ret' = [Ret("deleteRecord", r.ok, key, r.path, 0) EXCEPT !.fault = fault]
        /\ hist' = Called

\* deleteRecord(key) with a working backend.
DeleteRecordCall(mustSucceed) == DeleteRecordWith({NoFault}, MaxCalls, mustSucceed)

DoOpen == OpenCall(FALSE)
DoAppend == AppendCall(Keys, MaxCalls, FALSE)
DoGet == GetCall(Keys, BufferSizes, MaxCalls)
DoUpdateStatus == UpdateStatusCall(StatusValues, FALSE)
DoDeleteRecord == DeleteRecordCall(FALSE)

\* The queries: btreeFindKey, dbFindRecordsByStatus, dbGetIndexCount.
\* btreeFindKey(key, &index)
FindKeyCall(limit) ==
    /\ CanCall(limit)
    /\ \E key \in Keys :
        \E r \in {btreeFindKey(Eng, key)} :
        /\ Commit(r.e)
        /\ ret' = Ret("findKey", r.found, key, "", r.index)
        /\ hist' = Called

DoFindKey == FindKeyCall(MaxCalls)

\* dbFindRecordsByStatus(status, results, maxResults), status out of
\* statuses and maxResults one of Caps (a capacity of one, and one no index
\* of the run exceeds); ret.key is status, ret.index the count returned.
Caps == {1, MaxCalls}

FindRecordsByStatusCall(statuses) ==
    /\ CanCall(MaxCalls)
    /\ \E status \in statuses, maxResults \in Caps :
        \E r \in {dbFindRecordsByStatus(Eng, status, maxResults)} :
        /\ Commit(r.e)
        /\ ret' = Ret("findByStatus", TRUE, status, "", Len(r.results))
        /\ hist' = Called

DoFindRecordsByStatus == FindRecordsByStatusCall(StatusValues \cup {0})

DoGetIndexCount ==
    /\ CanCall(MaxCalls)
    /\ UNCHANGED <<logFile, indexFile, indexCount, indexPage, currentPageNumber,
                   pageLoaded, pageDirty, handles>>
    /\ ret' = Ret("indexCount", TRUE, 0, "", dbGetIndexCount(Eng))
    /\ hist' = Called

\* Keys offered to btreeLocateKey: the keys of the run, the smallest and the
\* largest uint32_t.
LocateKeys == {0} \cup Keys \cup {UINT32_MAX}

\* Positions offered to btreeNextKey and btreePrevKey: those of the index,
\* the two past its end and the largest uint32_t.
Cursors == (0..(indexCount + 1)) \cup {UINT32_MAX}

\* btreeLocateKey(key, &index)
LocateKeyCall(limit) ==
    /\ CanCall(limit)
    /\ \E key \in LocateKeys :
        \E r \in {btreeLocateKey(Eng, key)} :
        /\ Commit(r.e)
        /\ ret' = Ret("locateKey", r.found, key, "", r.index)
        /\ hist' = Called

\* btreeNextKey(currentIndex, &nextIndex); ret.key is currentIndex.
NextKeyCall(limit) ==
    /\ CanCall(limit)
    /\ \E currentIndex \in Cursors :
        \E r \in {btreeNextKey(Eng, currentIndex)} :
        /\ UNCHANGED <<logFile, indexFile, indexCount, indexPage, currentPageNumber,
                       pageLoaded, pageDirty, handles>>
        /\ ret' = Ret("nextKey", r.found, currentIndex, "", r.index)
        /\ hist' = Called

\* btreePrevKey(currentIndex, &prevIndex); ret.key is currentIndex.
PrevKeyCall(limit) ==
    /\ CanCall(limit)
    /\ \E currentIndex \in Cursors :
        \E r \in {btreePrevKey(Eng, currentIndex)} :
        /\ UNCHANGED <<logFile, indexFile, indexCount, indexPage, currentPageNumber,
                       pageLoaded, pageDirty, handles>>
        /\ ret' = Ret("prevKey", r.found, currentIndex, "", r.index)
        /\ hist' = Called

DoLocateKey == LocateKeyCall(MaxCalls)
DoNextKey == NextKeyCall(MaxCalls)
DoPrevKey == PrevKeyCall(MaxCalls)

\* Every call of the interface, in any order, reopening included.
Next ==
    \/ DoOpen \/ DoAppend \/ DoGet \/ DoUpdateStatus \/ DoDeleteRecord
    \/ DoFindKey \/ DoFindRecordsByStatus \/ DoGetIndexCount
    \/ DoLocateKey \/ DoNextKey \/ DoPrevKey

Spec == Init /\ [][Next]_vars

\* ---- a run on an empty database: opened once, then the calls of the facade
\* and the queries findKey, findByStatus and indexCount (the ordered queries
\* locateKey, nextKey and prevKey have their own workload, NextQuery)
OpenFirst == OpenCall(TRUE)

NextRun ==
    \/ OpenFirst \/ DoAppend \/ DoGet \/ DoUpdateStatus \/ DoDeleteRecord
    \/ DoFindKey \/ DoFindRecordsByStatus \/ DoGetIndexCount

SpecRun == Init /\ [][NextRun]_vars

\* ---- a run of the facade on an empty database: open once, then append,
\* get, updateStatus and deleteRecord calls, failing ones included
NextFacade == OpenFirst \/ DoAppend \/ DoGet \/ DoUpdateStatus \/ DoDeleteRecord

SpecFacade == Init /\ [][NextFacade]_vars

\* ---- the status workload on an empty database: successful appends and
\* deletes, updateStatus with the two status values of the test, and
\* findByStatus
TestStatuses == {STATUS_UPLOADED, STATUS_CONFIRMED}

UpdateStatusAny == UpdateStatusCall(TestStatuses, FALSE)

FindByAnyStatus == FindRecordsByStatusCall(TestStatuses \cup {0})

NextStatus ==
    \/ OpenFirst \/ AppendCall(Keys, MaxCalls, TRUE) \/ DeleteRecordCall(TRUE)
    \/ UpdateStatusAny \/ FindByAnyStatus

SpecStatus == Init /\ [][NextStatus]_vars

\* ---- the ordered queries on an empty database: successful appends, then
\* locateKey, nextKey and prevKey
QueryAppend == AppendCall(Keys, MaxQueryCalls, TRUE)
QueryLocateKey == LocateKeyCall(MaxQueryCalls)
QueryNextKey == NextKeyCall(MaxQueryCalls)
QueryPrevKey == PrevKeyCall(MaxQueryCalls)

NextQuery == OpenFirst \/ QueryAppend \/ QueryLocateKey \/ QueryNextKey \/ QueryPrevKey

SpecQuery == Init /\ [][NextQuery]_vars

\* ---- the cursor workload on an empty database: successful appends and
\* deletes, then nextKey and prevKey
NextCursor ==
    \/ OpenFirst \/ AppendCall(Keys, MaxCalls, TRUE) \/ DeleteRecordCall(TRUE)
    \/ DoNextKey \/ DoPrevKey

SpecCursor == Init /\ [][NextCursor]_vars

\* ---- a database whose log header gets damaged on the storage medium
\* Values a damaged header byte may take.
CorruptBytes == {0, 2}

\* One byte of the valid log header, in the magic or in the version, is
\* replaced by another value while no call is in progress.
CorruptHeader ==
    /\ loadDBHeader(Eng).ok
    /\ \E i \in 1..DBHeaderSize, b \in CorruptBytes :
        /\ b # logFile[i]
        /\ logFile' = [logFile EXCEPT ![i] = b]
    /\ UNCHANGED <<indexFile, indexCount, indexPage, currentPageNumber,
                   pageLoaded, pageDirty, handles, ret, hist>>

NextCorrupt == DoOpen \/ AppendCall(Keys, MaxCalls, TRUE) \/ CorruptHeader

SpecCorrupt == Init /\ [][NextCorrupt]_vars

\* ---- a database whose index file gets damaged on the storage medium
\* The key of one entry stored in page 0 of the index file is replaced by
\* another key while no call is in progress.
CorruptIndex ==
    /\ indexFile.exists
    /\ \E i \in 1..MIN(P, Len(indexFile.entries)), k \in Keys :
        /\ k # indexFile.entries[i].key
        /\ indexFile' = [indexFile EXCEPT !.entries[i].key = k]
    /\ UNCHANGED <<logFile, indexCount, indexPage, currentPageNumber,
                   pageLoaded, pageDirty, handles, ret, hist>>

NextIndexCorrupt == DoOpen \/ AppendCall(Keys, MaxCalls, TRUE) \/ CorruptIndex

SpecIndexCorrupt == Init /\ [][NextIndexCorrupt]_vars

\* ---- appends during which a backend call of the index file may fail
\* The backend calls made on the index file, by the function making them.
IndexFaults ==
    {"saveIndexHeader.open", "saveIndexHeader.create", "saveIndexHeader.seek",
     "saveIndexHeader.write", "flushIndexPage.open", "flushIndexPage.seek",
     "flushIndexPage.write", "loadIndexPage.open", "loadIndexPage.seek",
     "loadIndexPage.read", "splitPageAndInsert.open", "splitPageAndInsert.create",
     "splitPageAndInsert.seek", "splitPageAndInsert.write"}

\* append with a working backend or with one failing call on the index file.
OrphanAppend == AppendWith({NoFault} \cup IndexFaults, Keys, MaxFaultCalls, FALSE)

NextOrphan == OpenFirst \/ OrphanAppend \/ FindKeyCall(MaxFaultCalls)

SpecOrphan == Init /\ [][NextOrphan]_vars

\* ---- every call of the facade, during which any one backend call may fail
\* The backend calls made when a page is brought in: the flush of the dirty
\* resident page and the load.
PageFaults ==
    {"flushIndexPage.open", "flushIndexPage.seek", "flushIndexPage.write",
     "saveIndexHeader.open", "saveIndexHeader.create", "saveIndexHeader.seek",
     "saveIndexHeader.write", "loadIndexPage.open", "loadIndexPage.seek",
     "loadIndexPage.read"}

\* The backend calls each operation can make, and none failing.
OpenFaults ==
    {NoFault, "loadDBHeader.open", "loadDBHeader.read", "saveDBHeader.open",
     "saveDBHeader.create", "saveDBHeader.seek", "saveDBHeader.write",
     "loadIndexHeader.open", "loadIndexHeader.read"} \cup PageFaults
AppendFaults ==
    {NoFault, "append.open", "append.create", "append.seekToEnd",
     "append.writeHeader", "append.writeRecord"} \cup IndexFaults
GetFaults ==
    {NoFault, "get.open", "get.seek", "get.readHeader", "get.readRecord"}
        \cup PageFaults
UpdateStatusFaults ==
    {NoFault, "updateStatus.open", "updateStatus.seek", "updateStatus.write"}
        \cup PageFaults
DeleteRecordFaults ==
    {NoFault, "deleteRecord.open", "deleteRecord.seek", "deleteRecord.write"}
        \cup PageFaults

FaultyOpen == OpenWith(OpenFaults, MaxFaultyCalls, FALSE)
FaultyAppend == AppendWith(AppendFaults, Keys, MaxFaultyCalls, FALSE)
FaultyGet == GetWith(GetFaults, Keys, BufferSizes, MaxFaultyCalls)
FaultyUpdateStatus ==
    UpdateStatusWith(UpdateStatusFaults, StatusValues, MaxFaultyCalls, FALSE)
FaultyDeleteRecord == DeleteRecordWith(DeleteRecordFaults, MaxFaultyCalls, FALSE)

NextFaulty ==
    \/ FaultyOpen \/ FaultyAppend \/ FaultyGet \/ FaultyUpdateStatus
    \/ FaultyDeleteRecord

SpecFaulty == Init /\ [][NextFaulty]_vars

\* ---- short reads of index pages on an empty database: successful appends,
\* then gets during which the read of loadIndexPage delivers no byte
ShortRead == "loadIndexPage.read"

ShortReadGet == GetWith({NoFault, ShortRead}, Keys, FullBuffer, MaxCalls)

NextShortRead == OpenFirst \/ AppendCall(Keys, MaxCalls, TRUE) \/ ShortReadGet

SpecShortRead == Init /\ [][NextShortRead]_vars

\* ---- only calls that return success
AppendOk == AppendCall(Keys, MaxCalls, TRUE)
DeleteRecordOk == DeleteRecordCall(TRUE)
UpdateStatusOk == UpdateStatusCall(StatusValues, TRUE)

\* Successful append and deleteRecord calls on an empty database.
NextAD == OpenFirst \/ AppendOk \/ DeleteRecordOk

SpecAD == Init /\ [][NextAD]_vars

\* Successful append, deleteRecord and updateStatus calls on an empty database.
NextSucc == OpenFirst \/ AppendOk \/ DeleteRecordOk \/ UpdateStatusOk

SpecSucc == Init /\ [][NextSucc]_vars

\* The same, the database reopened at any time.
NextReopen == DoOpen \/ AppendOk \/ DeleteRecordOk \/ UpdateStatusOk

SpecReopen == Init /\ [][NextReopen]_vars

\* ---- appends of distinct keys in any order on an empty database
AppendNew == AppendCall({k \in Keys : hist.stored[k] = NoPayload}, MaxCalls, FALSE)

NextNew == OpenFirst \/ AppendNew

SpecNew == Init /\ [][NextNew]_vars

\* ---- the monotonic workload: keys appended in strictly increasing order
\* to an empty database, and gets
AppendedKeys == {k \in AllKeys : hist.stored[k] # NoPayload}

MonoAppend ==
    AppendCall({k \in MonoKeys : \A j \in AppendedKeys : j < k}, MaxMonoCalls, FALSE)

MonoGet == GetCall(MonoKeys, FullBuffer, MaxMonoCalls)

NextMono == OpenFirst \/ MonoAppend \/ MonoGet

SpecMono == Init /\ [][NextMono]_vars

\* ------------------------------------------------------------------ observers
\* The engine and its files as the step leaves them.
EngNext ==
    [logFile |-> logFile', indexFile |-> indexFile', indexCount |-> indexCount',
     indexPage |-> indexPage', currentPageNumber |-> currentPageNumber',
     pageLoaded |-> pageLoaded', pageDirty |-> pageDirty', handles |-> handles',
     fault |-> NoFault]

\* The entry at global position g as the engine's accessor returns it.
EntryOf(e, g) == getIndexEntry(e, g).entry
EntryAt(g) == EntryOf(Eng, g)

Positions == 0..(indexCount - 1)

\* The entries at all positions, as a function of the position.
EntriesOf(e) == [g \in 0..(e.indexCount - 1) |-> EntryOf(e, g)]

\* get(k) with a buffer large enough returns exactly payload and its length.
GetReturnsIn(e, k, payload) ==
    \A n \in FullBuffer :
        LET r == get(e, k, n)
        IN r.ok /\ r.buf = payload /\ r.sizeSet /\ r.size = Len(payload)

GetReturns(k, payload) == GetReturnsIn(Eng, k, payload)

\* What findKey(k) returns.
FindKeyIn(e, k) ==
    LET r == btreeFindKey(e, k) IN [found |-> r.found, index |-> r.index]

\* The index holds an entry for k whose DELETED bit is clear.
HoldsLive(k) ==
    \E g \in Positions :
        EntryAt(g).key = k /\ ~IsDeleted(EntryAt(g).internal_status)

\* ------------------------------------------------------------------ C1
\* C1: after any sequence of successful append and deleteRecord calls on an
\* empty database, the entries at positions [0, indexCount) are strictly
\* ascending by key, across page boundaries too.
C1_StrictlyAscending ==
    \A i \in 0..(indexCount - 2) : EntryAt(i).key < EntryAt(i + 1).key

\* C1's case: a successful append has made the index longer than one page.
C1_Witness == ret.op = "append" /\ ret.ok /\ indexCount > P

\* ------------------------------------------------------------------ C2
\* C2: after every append(k, type, payload, len) that returns success, a
\* get(k, buf, len, &out) issued next returns success, buf = payload and
\* out = len, whichever path the append took.
C2_RoundTrip ==
    (ret.op = "append" /\ ret.ok) => GetReturns(ret.key, hist.stored[ret.key])

\* C2's case: a successful append that split a page.
C2_Witness == ret.op = "append" /\ ret.ok /\ ret.path = "split"

\* ------------------------------------------------------------------ C3
\* C3: when distinct keys are appended in any order to an empty database,
\* every append succeeds, every appended key k is returned by get(k) with
\* the payload appended for it, and get succeeds for the key of every index
\* position.
C3_NoKeyLost ==
    /\ ret.op = "append" => ret.ok
    /\ \A k \in AppendedKeys : GetReturns(k, hist.stored[k])
    /\ \A g \in Positions : \E n \in FullBuffer : get(Eng, EntryAt(g).key, n).ok

\* C3's case: more distinct keys appended than one page holds.
C3_Witness == ret.op = "append" /\ Cardinality(AppendedKeys) > P

\* ------------------------------------------------------------------ C4
\* C4: after successful append, deleteRecord and updateStatus calls, open()
\* on the same files yields the same indexCount and, at every position, an
\* entry identical in key, offset, status and internal_status.
C4_ReopenPreserves ==
    [][(ret'.op = "open" /\ hist.opens > 0) =>
          /\ ret'.ok
          /\ indexCount' = indexCount
          /\ EntriesOf(EngNext) = EntriesOf(Eng)]_vars

\* C4's case: the database reopened after a successful fresh append.
C4_Witness == ret.op = "open" /\ hist.opens > 1 /\ hist.fresh > 0

\* ------------------------------------------------------------------ C5
\* C5: append(k, ...) when the index holds an entry for k whose DELETED bit
\* is clear returns failure and leaves the log file, indexCount and every
\* index entry unchanged; a get(k) issued next returns the payload stored
\* for k.
C5_DuplicateRejected ==
    [][\A k \in Keys :
        (ret'.op = "append" /\ ret'.key = k /\ HoldsLive(k)) =>
            /\ ~ret'.ok
            /\ logFile' = logFile
            /\ indexCount' = indexCount
            /\ EntriesOf(EngNext) = EntriesOf(Eng)
            /\ GetReturnsIn(EngNext, k, hist.stored[k])]_vars

\* C5's case: an append rejected as a live duplicate.
C5_Witness == ret.op = "append" /\ ~ret.ok /\ ret.path = "dup"

\* ------------------------------------------------------------------ C6
\* C6: for a key k present and live deleteRecord(k) succeeds; an append(k,
\* ..., payload2) issued next succeeds, the entry for k then holds the offset
\* of the record just appended, and a get(k) issued next returns payload2.
C6_DeleteThenReappend ==
    [][\A k \in Keys :
        /\ (ret'.op = "deleteRecord" /\ ret'.key = k /\ HoldsLive(k)) => ret'.ok
        /\ (/\ ret.op = "deleteRecord" /\ ret.key = k /\ ret.ok /\ ret.path = "deleted"
            /\ ret'.op = "append" /\ ret'.key = k) =>
               /\ ret'.ok
               /\ \E g \in Positions :
                     /\ EntryOf(EngNext, g).key = k
                     /\ EntryOf(EngNext, g).offset = Len(logFile)
               /\ GetReturnsIn(EngNext, k, hist'.stored[k])]_vars

\* C6's case: the key of the first log record was deleted (the record is
\* marked in the log) and then appended again with success.
C6_Witness ==
    /\ ret.op = "append" /\ ret.ok /\ ret.path = "reuse"
    /\ LET h == ParseLogEntryHeader(FileRead(logFile, DBHeaderSize, LogEntryHeaderSize))
       IN h.key = ret.key /\ IsDeleted(h.internal_status)

\* ------------------------------------------------------------------ C7
\* internal_status with the DELETED bit cleared, its other bits as they are.
ClearDeleted(internal_status) ==
    IF IsDeleted(internal_status) THEN internal_status - INTERNAL_STATUS_DELETED
    ELSE internal_status

\* C7: an append(k) that reuses the tombstoned entry at position g changes
\* only that entry's offset (to the offset of the new record) and its DELETED
\* bit (to clear): its key and status are as before, findKey(k) returns g,
\* indexCount is unchanged and every other entry is unchanged.
C7_ReuseFrame ==
    [][\A k \in Keys, i \in 0..indexCount :
        (ret'.op = "append" /\ ret'.ok /\ ret'.path = "reuse"
         /\ ret'.key = k /\ ret'.index = i) =>
            /\ i \in Positions
            /\ EntryAt(i).key = k
            /\ IsDeleted(EntryAt(i).internal_status)
            /\ indexCount' = indexCount
            /\ \A g \in Positions :
                  EntryOf(EngNext, g) =
                     IF g = i
                     THEN [EntryAt(g) EXCEPT
                             !.offset = Len(logFile),
                             !.internal_status = ClearDeleted(EntryAt(g).internal_status)]
                     ELSE EntryAt(g)
            /\ FindKeyIn(EngNext, k) = [found |-> TRUE, index |-> i]]_vars

\* C7's case: an append that reused a tombstoned entry.
C7_Witness == ret.op = "append" /\ ret.ok /\ ret.path = "reuse" /\ indexCount > 1

\* ------------------------------------------------------------------ C8
\* C8: in a run on an empty database, indexCount grows by exactly one on
\* every successful append that inserts a fresh entry, with or without a
\* page split, and is unchanged by a successful append that reuses a
\* tombstoned entry, by deleteRecord, updateStatus, get and the queries; so
\* indexCount is the number of successful fresh-insert appends.
C8_IndexCountSteps ==
    /\ [][/\ (ret'.op = "append" /\ ret'.ok /\ ret'.path \in {"insert", "split"})
                => indexCount' = indexCount + 1
          /\ (ret'.op = "append" /\ ret'.ok /\ ret'.path = "reuse")
                => indexCount' = indexCount
          /\ ret'.op \in {"deleteRecord", "updateStatus", "get", "findKey",
                          "findByStatus", "indexCount"}
                => indexCount' = indexCount]_vars
    /\ [](dbGetIndexCount(Eng) = hist.fresh)

\* C8's case: fresh inserts on both paths and a reuse have happened.
C8_Witness ==
    ret.op = "append" /\ ret.ok /\ ret.path = "split" /\ hist.reused > 0

\* ------------------------------------------------------------------ C9
\* The log records appended so far: the log is only ever extended, so they
\* are the records the file holds after its header.
LogRecords == CountRecords(logFile, DBHeaderSize)

C10_Monotonic ==
    /\ ret.op = "append" => ret.ok
    /\ indexCount = Cardinality(AppendedKeys)
    /\ (ret.op = "get" /\ ret.key \in AppendedKeys) => ret.ok
    /\ \A k \in AppendedKeys : \A n \in FullBuffer :
          LET r == get(Eng, k, n)
          IN r.ok /\ r.sizeSet /\ r.size = Len(hist.stored[k])

\* C10's case: more keys than two pages hold were appended, then read.
C10_Witness ==
    ret.op = "get" /\ ret.ok /\ Cardinality(AppendedKeys) > 2 * P

\* ------------------------------------------------------------------ C11
\* C11: a successful append of a key that had no index entry leaves an entry
\* {key, offset of the new log record, status 0, internal_status 0} in the
\* index, whatever the flags of the entries shifted to make room, and an
\* append of the same key made next is rejected.
C11_FreshEntry ==
    [][\A k \in Keys :
        (ret'.op = "append" /\ ret'.ok /\ ret'.path \in {"insert", "split"}
         /\ ret'.key = k) =>
            /\ \E g \in 0..(indexCount' - 1) :
                  EntryOf(EngNext, g) =
                      IndexEntry(k, Len(OpenLogForAppend(logFile)), 0, 0)
            /\ \A recordType \in RecordTypes, record \in Payloads :
                  ~append(EngNext, k, recordType, record).ok]_vars

\* C11's case: a fresh entry was inserted below entries that were shifted up.
C11_Witness ==
    /\ ret.op = "append" /\ ret.ok /\ ret.path \in {"insert", "split"}
    /\ ret.index + 1 < indexCount

\* ------------------------------------------------------------------ C12
\* The byte positions (from 0) at which two logs of equal length differ.
LogDiff(a, b) == {i \in 0..(Len(a) - 1) : a[i + 1] # b[i + 1]}

\* C12: deleteRecord(k) on a key that has a live entry returns success; for
\* such an entry, at position g, the log then differs from before in exactly
\* the byte at entry.offset + 8, which carries the DELETED bit, and has the
\* same length; the entry at g differs only by the DELETED bit now set;
\* every other entry and indexCount are unchanged; the page is dirty.
C12_DeleteFrame ==
    [][\A k \in Keys :
        (HoldsLive(k) /\ ret'.op = "deleteRecord" /\ ret'.key = k) =>
            /\ ret'.ok
            /\ \E g \in Positions :
                /\ EntryAt(g).key = k /\ ~IsDeleted(EntryAt(g).internal_status)
                /\ Len(logFile') = Len(logFile)
                /\ LogDiff(logFile, logFile') = {EntryAt(g).offset + 8}
                /\ IsDeleted(logFile'[EntryAt(g).offset + 8 + 1])
                /\ indexCount' = indexCount
                /\ \A h \in Positions :
                      EntryOf(EngNext, h) =
                         IF h = g
                         THEN [EntryAt(g) EXCEPT
                                 !.internal_status = SetDeleted(EntryAt(g).internal_status)]
                         ELSE EntryAt(h)
                /\ pageDirty']_vars

\* C12's case: a live key on the second page was deleted.
C12_Witness ==
    /\ ret.op = "deleteRecord" /\ ret.ok /\ ret.path = "deleted"
    /\ indexCount > P /\ currentPageNumber > 0

\* ------------------------------------------------------------------ C13
\* The index holds an entry for k with the DELETED bit set, and no live one.
HoldsDeleted(k) ==
    /\ \E g \in Positions : EntryAt(g).key = k /\ IsDeleted(EntryAt(g).internal_status)
    /\ ~HoldsLive(k)

\* C13: deleteRecord(k) on a key whose entry has the DELETED bit set returns
\* success and writes nothing: the log file, the index file, every index
\* entry, indexCount and the dirty flag are as before the call.
C13_DeleteIdempotent ==
    [][\A k \in Keys :
        (HoldsDeleted(k) /\ ret'.op = "deleteRecord" /\ ret'.key = k) =>
            /\ ret'.ok
            /\ logFile' = logFile
            /\ indexFile' = indexFile
            /\ indexCount' = indexCount
            /\ EntriesOf(EngNext) = EntriesOf(Eng)
            /\ pageDirty' = pageDirty]_vars

\* C13's case: a deleteRecord of a key deleted before by deleteRecord (its
\* log record carries the DELETED bit).
C13_Witness ==
    /\ ret.op = "deleteRecord" /\ ret.ok /\ ret.path = "already"
    /\ \E g \in Positions :
          /\ EntryAt(g).key = ret.key
          /\ IsDeleted(logFile[EntryAt(g).offset + 8 + 1])

\* ------------------------------------------------------------------ C14
\* The index holds an entry for k.
Holds(k) == \E g \in Positions : EntryAt(g).key = k

\* The step leaves the log file, indexCount and every index entry as they were.
DataUnchanged ==
    /\ logFile' = logFile
    /\ indexCount' = indexCount
    /\ EntriesOf(EngNext) = EntriesOf(Eng)

\* C14: get(k) and deleteRecord(k) for a key with no index entry, and
\* updateStatus(g, s) with g >= indexCount, return failure and leave the log
\* file, every index entry and indexCount unchanged.
C14_NotFound ==
    [][/\ \A k \in Keys :
            (~Holds(k) /\ ret'.op \in {"get", "deleteRecord"} /\ ret'.key = k)
                => ~ret'.ok /\ DataUnchanged
       /\ (ret'.op = "updateStatus" /\ ret'.index >= indexCount)
                => ~ret'.ok /\ DataUnchanged]_vars

\* C14's case: a get of an absent key failed on an index that holds other
\* keys, a full page of them.
C14_Witness ==
    /\ ret.op = "get" /\ ~ret.ok /\ ~Holds(ret.key)
    /\ indexCount >= P

C16_UpdateStatus ==
    [][\A g \in Positions, s \in TestStatuses \cup StatusValues :
        (ret'.op = "updateStatus" /\ ret'.index = g /\ ret'.key = s) =>
            /\ ret'.ok
            /\ Len(logFile') = Len(logFile)
            /\ logFile'[EntryAt(g).offset + 7 + 1] = s
            /\ LogDiff(logFile, logFile') \subseteq {EntryAt(g).offset + 7}
            /\ indexCount' = indexCount
            /\ \A h \in Positions :
                  EntryOf(EngNext, h) =
                     IF h = g THEN [EntryAt(g) EXCEPT !.status = s] ELSE EntryAt(h)]_vars

\* C16's case: an updateStatus replaced a status set by an earlier
\* updateStatus with another value, the index holding other entries too.
C16_Witness ==
    /\ ret.op = "updateStatus" /\ ret.ok /\ ret.path = "overwrite"
    /\ indexCount > 1

\* ------------------------------------------------------------------ C17
\* The positions whose entry has the given user status.
Matches(status) == {g \in Positions : EntryAt(g).status = status}

\* C17: findByStatus(status, out, cap) returns count = min(cap, number of
\* positions whose entry has that status) and out[0..count) holds matching
\* positions in strictly ascending order, the smallest ones: a matching
\* position left out is greater than every one returned.  The count a
\* findByStatus call has just returned is such a count.
C17_FindByStatus ==
    /\ \A status \in TestStatuses \cup {0}, cap \in Caps :
        \A out \in {dbFindRecordsByStatus(Eng, status, cap).results},
           matching \in {Matches(status)} :
             /\ Len(out) = MIN(cap, Cardinality(matching))
             /\ \A i \in 1..Len(out) : out[i] \in matching
             /\ \A i \in 1..(Len(out) - 1) : out[i] < out[i + 1]
             /\ \A g \in matching :
                   (\A i \in 1..Len(out) : out[i] # g) =>
                       \A i \in 1..Len(out) : out[i] < g
    /\ ret.op = "findByStatus" =>
          \E cap \in Caps : ret.index = MIN(cap, Cardinality(Matches(ret.key)))

\* C17's case: a findByStatus for a status set by updateStatus returned the
\* one matching position of an index that holds other entries too.
C17_Witness ==
    /\ ret.op = "findByStatus" /\ ret.key \in TestStatuses /\ ret.index = 1
    /\ indexCount > 1

\* ------------------------------------------------------------------ C18
\* C18: findKey(k), and searchIndex(k), returns found with a position g
\* exactly when some entry in [0, indexCount) has key k, and then the entry
\* at g has key k; on a non-empty index findKey of the first entry's key
\* returns 0, and a key greater than every stored key is not found.  The
\* result a findKey call has just returned is such a result.
C18_FindKey ==
    /\ \A k \in Keys :
        \A r \in {FindKeyIn(Eng, k)}, s \in {searchIndex(Eng, k)} :
            /\ r.found <=> Holds(k)
            /\ r.found => EntryAt(r.index).key = k
            /\ s.found = r.found /\ s.index = r.index
            /\ (indexCount > 0 /\ EntryAt(0).key = k) => r.found /\ r.index = 0
            /\ (\A g \in Positions : EntryAt(g).key < k) => ~r.found
    /\ (ret.op = "findKey" /\ ret.key \in Keys) => (ret.ok <=> Holds(ret.key))

\* C18's case: a findKey call on an index of more than one page.
C18_Witness == ret.op = "findKey" /\ indexCount > P

\* ------------------------------------------------------------------ C19
\* The positions whose key is >= k, keys compared as uint32_t.
AtLeast(k) == {g \in Positions : ~ULess(EntryAt(g).key, k)}

\* C19: locateKey(k) returns the smallest position whose key is >= k, and
\* not-found exactly when every stored key is less than k (so always on an
\* empty index); on a non-empty index locateKey(0) returns 0.  The result a
\* locateKey call has just returned is such a result.
C19_LocateKey ==
    /\ \A k \in LocateKeys :
        \A r \in {btreeLocateKey(Eng, k)}, atLeast \in {AtLeast(k)} :
            /\ r.found <=> atLeast # {}
            /\ r.found => r.index \in atLeast /\ \A g \in atLeast : r.index <= g
    /\ indexCount > 0 =>
          \A r \in {btreeLocateKey(Eng, 0)} : r.found /\ r.index = 0
    /\ ret.op = "locateKey" =>
          /\ ret.ok <=> AtLeast(ret.key) # {}
          /\ ret.ok => ret.index \in AtLeast(ret.key)
                        /\ \A g \in AtLeast(ret.key) : ret.index <= g

\* C19's case: a locateKey call found a position on the second page.
C19_Witness == ret.op = "locateKey" /\ ret.ok /\ ret.index >= P

\* ------------------------------------------------------------------ C20
\* A uint32_t value that is a position of the index.
InRange(v) == 0 <= v /\ v < indexCount

\* C20: for every 32-bit i, nextKey(i) returns success only with the result
\* i + 1 (modulo 2^32) and only when that lies in [0, indexCount), and
\* not-found otherwise; prevKey(i) returns success only with the result
\* i - 1 (modulo 2^32) and only when that lies in [0, indexCount), and
\* not-found otherwise.  The result a nextKey or prevKey call has just
\* returned is such a result.
C20_NextPrevKey ==
    /\ \A i \in Cursors :
        \A n \in {btreeNextKey(Eng, i)}, p \in {btreePrevKey(Eng, i)} :
            /\ n.found <=> InRange(UInc(i))
            /\ n.found => n.index = UInc(i)
            /\ p.found <=> InRange(UDec(i))
            /\ p.found => p.index = UDec(i)
    /\ (ret.op \in {"nextKey", "prevKey"} /\ ret.ok) => InRange(ret.index)

\* C20's case: a prevKey call returned success on a non-empty index.
C20_Witness == ret.op = "prevKey" /\ ret.ok /\ indexCount > 0

\* ------------------------------------------------------------------ C21
\* C21: for every position i in [0, indexCount): if nextKey(i) succeeds with
\* j then prevKey(j) succeeds with i, and if prevKey(i) succeeds with j then
\* nextKey(j) succeeds with i; neither passes over a tombstoned entry: the
\* position returned is the adjacent one, i + 1 or i - 1, whatever the flags
\* of the entry there.  The result a nextKey or prevKey call on a position
\* has just returned is undone by the other.
C21_Inverses ==
    /\ \A i \in Positions :
        \A n \in {btreeNextKey(Eng, i)}, p \in {btreePrevKey(Eng, i)} :
            /\ n.found => /\ btreePrevKey(Eng, n.index) = [found |-> TRUE, index |-> i]
                           /\ n.index = i + 1
            /\ p.found => /\ btreeNextKey(Eng, p.index) = [found |-> TRUE, index |-> i]
                           /\ p.index = i - 1
    /\ (ret.op = "nextKey" /\ ret.ok /\ ret.key \in Positions) =>
            btreePrevKey(Eng, ret.index) = [found |-> TRUE, index |-> ret.key]
    /\ (ret.op = "prevKey" /\ ret.ok /\ ret.key \in Positions) =>
            btreeNextKey(Eng, ret.index) = [found |-> TRUE, index |-> ret.key]

\* C21's case: a nextKey call on a position returned the position of an
\* entry that deleteRecord has tombstoned (in the index and in the log).
C21_Witness ==
    /\ ret.op = "nextKey" /\ ret.ok /\ ret.key \in Positions
    /\ IsDeleted(EntryAt(ret.index).internal_status)
    /\ IsDeleted(logFile[EntryAt(ret.index).offset + 8 + 1])

\* ------------------------------------------------------------------ C22
\* C22: open on a log file that exists and whose first 6 bytes can be read,
\* with a magic other than 0x53474F4C or a version other than 0x0001,
\* returns failure and does not modify the log file.
C22_HeaderCorruption ==
    [][(/\ ret'.op = "open" /\ hist'.calls = hist.calls + 1
        /\ Len(logFile) >= DBHeaderSize
        /\ ~HeaderValid(FileRead(logFile, 0, DBHeaderSize))) =>
            ~ret'.ok /\ logFile' = logFile]_vars

\* C22's case: open was called on a database holding records whose log
\* header did not validate.
C22_Witness == ret.op = "open" /\ ret.path = "rewritten" /\ indexCount > 0

\* ------------------------------------------------------------------ C23
\* The key stored at slot i (from 1) of page 0 of the index file.
StoredKey(i) == indexFile.entries[i].key

\* The number of entries of page 0 according to the index file's header.
StoredInPage0 == MIN(P, indexFile.count)

\* C23: open on an index file whose page 0 holds, among its first
\* min(P, indexCount) entries, a key that is smaller than or equal to its
\* predecessor returns failure; when all adjacent pairs of page 0 are
\* strictly ascending the validation passes and open succeeds.
C23_IndexCorruption ==
    [][(/\ ret'.op = "open" /\ hist'.calls = hist.calls + 1
        /\ indexFile.exists /\ Len(indexFile.entries) >= StoredInPage0) =>
            /\ (\E i \in 1..(StoredInPage0 - 1) : ~(StoredKey(i) < StoredKey(i + 1)))
                    => ~ret'.ok
            /\ (\A i \in 1..(StoredInPage0 - 1) : StoredKey(i) < StoredKey(i + 1))
                    => ret'.ok]_vars

\* C23's case: open failed on an index file holding more than one entry
\* (the validation of page 0 is the only step of such an open that fails).
C23_Witness == ret.op = "open" /\ ~ret.ok /\ indexCount > 1

\* ------------------------------------------------------------------ C24
\* The size of the index file in bytes: the count written by saveIndexHeader
\* and the entries written after it.
IndexFileSize ==
    IF indexFile.exists /\ indexFile.count # NoCount
    THEN IndexHeaderSize + IndexEntrySize * Len(indexFile.entries)
    ELSE 0

\* The byte offset of page pageNumber in the index file, as flushIndexPage
\* and loadIndexPage compute it.
PageOffset(pageNumber) == IndexHeaderSize + pageNumber * IndexEntrySize * P

\* C24: open on two files that do not exist succeeds, creates both files
\* and leaves indexCount() = 0, a log file of exactly 6 bytes and an index
\* file of exactly 10 bytes, page p of the index starting at byte
\* 10 + p * P * 10; opening again yields the same sizes and indexCount() = 0.
C24_EmptyOpen ==
    (ret.op = "open" /\ hist.fresh = 0 /\ hist.reused = 0) =>
        /\ ret.ok
        /\ logFile # <<>> /\ indexFile.exists
        /\ dbGetIndexCount(Eng) = 0
        /\ Len(logFile) = 6
        /\ IndexFileSize = 10
        /\ \A pageNumber \in 0..MaxCalls : PageOffset(pageNumber) = 10 + pageNumber * P * 10

\* C24's case: the empty database was opened, and opened again.
C24_Witness == ret.op = "open" /\ hist.opens > 1 /\ hist.fresh = 0 /\ hist.reused = 0

\* ------------------------------------------------------------------ C25
\* C25: when append(k) has returned failure after its log record was
\* written, because a backend call of the index step failed, then k is not
\* findable in the index, and an append(k, ...) made next with a working
\* backend returns success and leaves an index entry for k whose offset is
\* the start of the record it has just written, past the orphan.
C25_OrphanRecovery ==
    [][\A k \in Keys :
        (ret.op = "append" /\ ret.key = k /\ ~ret.ok /\ ret.path = "orphan"
         /\ ret.fault # NoFault) =>
            /\ ~FindKeyIn(Eng, k).found
            /\ (ret'.op = "append" /\ ret'.key = k /\ ret'.fault = NoFault) =>
                  /\ ret'.ok
                  /\ \E g \in 0..(indexCount' - 1) :
                        /\ EntryOf(EngNext, g).key = k
                        /\ EntryOf(EngNext, g).offset = Len(logFile)]_vars

\* C25's case: an append with a working backend of a key whose earlier
\* append failed, through a failing backend call, after the log record was
\* written.
C25_Witness ==
    ret.op = "append" /\ ret.fault = NoFault /\ ret.key \in hist.orphans

\* ------------------------------------------------------------------ C26
\* The byte positions (from 0) of the status and internal_status bytes of
\* the records the log holds from offset off on.
RECURSIVE StatusBytes(_, _)
StatusBytes(log, off) ==
    IF off + LogEntryHeaderSize > Len(log) THEN {}
    ELSE {off + 7, off + 8}
            \cup StatusBytes(log, off + LogEntryHeaderSize
                                  + FromLE(FileRead(log, off + 1, 2)))

\* C26: across any sequence of engine operations, those during which a
\* backend open, seek, read or write fails included, the log file never
\* gets shorter, its header is never changed once valid, and no byte of a
\* record written before changes other than its status and internal_status
\* bytes.
C26_AppendOnlyLog ==
    [][/\ Len(logFile') >= Len(logFile)
       /\ HeaderValid(FileRead(logFile, 0, DBHeaderSize)) =>
             FileRead(logFile', 0, DBHeaderSize) = FileRead(logFile, 0, DBHeaderSize)
       /\ \A i \in DBHeaderSize..(Len(logFile) - 1) :
             i \notin StatusBytes(logFile, DBHeaderSize) =>
                 i < Len(logFile') /\ logFile'[i + 1] = logFile[i + 1]]_vars

\* C26's case: an operation during which a backend call failed has returned
\* failure on a log that holds a record written before.
C26_Witness ==
    /\ ret.fault # NoFault /\ ~ret.ok /\ ret.op \in {"append", "updateStatus", "deleteRecord"}
    /\ hist.fresh > 0

\* ------------------------------------------------------------------ C27
\* C27: in a run of strictly increasing appends on an empty database, the
\* append whose insertion position is a positive multiple of P (P, 2P, 3P)
\* is carried out by a page split.
C27_SplitAtMultiples ==
    [][(indexCount' = indexCount + 1 /\ indexCount > 0 /\ indexCount % P = 0) =>
            ret'.path = "split"]_vars

\* C27 as the code has it: no append of the run splits a page; the append
\* at position g (multiples of P included) stores the entry in slot g % P of
\* page g \div P, which is then the resident page, and the page before it,
\* complete, is in the index file.
C27_NewPageAtMultiples ==
    [][indexCount' = indexCount + 1 =>
            /\ ret'.op = "append" /\ ret'.ok /\ ret'.path = "insert"
            /\ pageLoaded' /\ currentPageNumber' = indexCount \div P
            /\ indexPage'[(indexCount % P) + 1].key = ret'.key
            /\ (indexCount > 0 /\ indexCount % P = 0) =>
                  /\ indexFile'.count >= indexCount
                  /\ Len(indexFile'.entries) >= indexCount
                  /\ \A g \in 0..(indexCount - 1) :
                        indexFile'.entries[g + 1].key = EntryOf(EngNext, g).key]_vars

\* C27's case: the appends at positions P and 2P were made.
C27_Witness == ret.op = "append" /\ ret.ok /\ indexCount = 2 * P + 1

\* ------------------------------------------------------------------ C28
\* The LogEntryHeader stored at offset of the log file.
StoredHeader(offset) == FileRead(logFile, offset, LogEntryHeaderSize)

\* The length field of the LogEntryHeader stored at offset.
StoredLength(offset) == ParseLogEntryHeader(StoredHeader(offset)).length

IndexUnchanged ==
    indexCount' = indexCount /\ EntriesOf(EngNext) = EntriesOf(Eng)

\* The step replaces the entry at one position p out of the set at by
\* new[p] and leaves indexCount and every other entry as they were.
OneEntrySet(at, new) ==
    /\ indexCount' = indexCount
    /\ \E p \in at :
          \A g \in Positions :
              EntryOf(EngNext, g) = IF g = p THEN new[g] ELSE EntryAt(g)

\* The positions of the entries that carry key.
PositionsOf(key) == {p \in Positions : EntryAt(p).key = key}

\* The step inserts an entry for key at one position p: the entries before
\* p stay, those from p on move up by one.
OneEntryInserted(key, offset) ==
    /\ indexCount' = indexCount + 1
    /\ \E p \in 0..indexCount :
          /\ EntryOf(EngNext, p).key = key
          /\ EntryOf(EngNext, p).offset = offset
          /\ \A g \in 0..(p - 1) : EntryOf(EngNext, g) = EntryAt(g)
          /\ \A g \in (p + 1)..indexCount : EntryOf(EngNext, g) = EntryAt(g - 1)

\* C29: flush-before-replace.  No change made to an index entry is lost when
\* the resident page is replaced: a call that only reads the index (loading
\* whatever pages it needs), a call that fails and a successful open leave
\* the entry read at every position as it was, the resident page dirty or
\* not; a successful
\* updateStatus, deleteRecord or append that sets or inserts one entry
\* without a split changes that entry and loses none of the others.
C29_FlushBeforeReplace ==
    [][/\ (ret'.op \in {"get", "findKey", "findByStatus", "indexCount",
                        "locateKey", "nextKey", "prevKey"}
           \/ (ret'.op \in {"append", "updateStatus", "deleteRecord"} /\ ~ret'.ok)
           \/ (ret'.op = "open" /\ ret'.ok))
              => IndexUnchanged
       /\ (ret'.op = "updateStatus" /\ ret'.ok) =>
              OneEntrySet({ret'.index} \cap Positions,
                          [g \in Positions |-> [EntryAt(g) EXCEPT !.status = ret'.key]])
       /\ (ret'.op = "deleteRecord" /\ ret'.ok) =>
              OneEntrySet(PositionsOf(ret'.key),
                          [g \in Positions |->
                              [EntryAt(g) EXCEPT !.internal_status =
                                    SetDeleted(EntryAt(g).internal_status)]])
       /\ (ret'.op = "append" /\ ret'.ok /\ ret'.path = "reuse") =>
              OneEntrySet(PositionsOf(ret'.key),
                          [g \in Positions |->
                              [EntryAt(g) EXCEPT !.offset = Len(logFile),
                                                 !.internal_status = 0]])
       /\ (ret'.op = "append" /\ ret'.ok /\ ret'.path = "insert") =>
              OneEntryInserted(ret'.key, Len(logFile))]_vars

\* C29's case: the entries were all inserted at the end (no split), the
\* last page, partly filled and dirty, was replaced by page 0 during a get
\* or findKey and is found in the index file with the count.
C29_Witness ==
    /\ ret.op \in {"get", "findKey"} /\ ret.ok
    /\ indexCount > P /\ indexCount % P # 0
    /\ \A g \in 0..(indexCount - 2) : EntryAt(g).offset < EntryAt(g + 1).offset
    /\ pageLoaded /\ currentPageNumber = 0 /\ ~pageDirty
    /\ indexFile.count = indexCount
    /\ Len(indexFile.entries) = indexCount

\* ------------------------------------------------------------------ C30
\* The positions of page pageNumber and after it, up to count entries.
PositionsFrom(pageNumber, count) == (pageNumber * P)..(count - 1)

\* The step is a successful append that split the last page, which was full,
\* of an index that was strictly ascending.
SplitOfLastPage ==
    /\ ret'.op = "append" /\ ret'.ok /\ ret'.path = "split"
    /\ indexCount > 0 /\ indexCount % P = 0
    /\ ret'.index \div P = (indexCount \div P) - 1
    /\ \A i \in 0..(indexCount - 2) : EntryAt(i).key < EntryAt(i + 1).key

\* C30: a split of the last page keeps its content: after an insertion at
\* slot s of the full last page p, the entries read at the positions
\* [p*P, indexCount) are the P entries the page held and the new entry, each
\* exactly once and ascending by key, for s < P/2 and for s >= P/2.
C30_SplitPreserves ==
    [][SplitOfLastPage =>
        LET p == ret'.index \div P
            after == PositionsFrom(p, indexCount + 1)
        IN  /\ indexCount' = indexCount + 1
            /\ \A g \in PositionsFrom(p, indexCount) :
                  Cardinality({h \in after : EntryOf(EngNext, h) = EntryAt(g)}) = 1
            /\ Cardinality({h \in after :
                              /\ EntryOf(EngNext, h).key = ret'.key
                              /\ EntryOf(EngNext, h).offset = Len(logFile)}) = 1
            /\ \A h \in after \ {indexCount} :
                  EntryOf(EngNext, h).key < EntryOf(EngNext, h + 1).key]_vars

\* C30's case: the only page, full, was split by an append.
C30_Witness ==
    ret.op = "append" /\ ret.ok /\ ret.path = "split" /\ indexCount = P + 1

\* ------------------------------------------------------------------ C31
\* The entries the index file holds for the pages from pageNumber on.
StoredFrom(file, pageNumber) ==
    SubSeq(file.entries, pageNumber * P + 1, Len(file.entries))

\* seq with x put in before its element at position i (from 0).
PutIn(seq, i, x) == SubSeq(seq, 1, i) \o <<x>> \o SubSeq(seq, i + 1, Len(seq))

\* C31: when a split of the full last page p puts the new entry in the new
\* page (slot s >= m, m = P/2), the region written for page p+1 has
\* P - m + 1 entries, the upper half [m, P) of the old page with the new
\* entry at slot s - m; when s < m it has the P - m entries of the upper
\* half.
C31_SplitRegion ==
    [][SplitOfLastPage =>
        LET p == ret'.index \div P
            s == ret'.index % P
            m == P \div 2
            upper == [i \in 1..(P - m) |-> EntryAt(p * P + m + i - 1)]
            region == StoredFrom(indexFile', p + 1)
        IN  IF s >= m
            THEN /\ Len(region) = P - m + 1
                 /\ region[s - m + 1].key = ret'.key
                 /\ region[s - m + 1].offset = Len(logFile)
                 /\ \A i \in 1..(P - m + 1) :
                       i # s - m + 1 => region[i] = PutIn(upper, s - m, upper[1])[i]
            ELSE region = upper]_vars

\* C31's case: a split of the only page, full, put the new entry in the new
\* page, which the index file holds.
C31_Witness ==
    /\ ret.op = "append" /\ ret.ok /\ ret.path = "split" /\ indexCount = P + 1
    /\ ret.index % P >= P \div 2
    /\ Len(StoredFrom(indexFile, 1)) > 0

\* ------------------------------------------------------------------ C32
\* The index file holds the count and the occupied slots of the resident
\* page of e as e has them in memory.
ResidentOnDisk(e) ==
    /\ e.indexFile.exists /\ e.indexFile.count = e.indexCount
    /\ Len(e.indexFile.entries) >= e.currentPageNumber * P
                                    + EntriesInPage(e.indexCount, e.currentPageNumber)
    /\ \A i \in 1..EntriesInPage(e.indexCount, e.currentPageNumber) :
          e.indexFile.entries[e.currentPageNumber * P + i] = e.indexPage[i]

\* C32: flush when a page becomes full.  A successful insert without a
\* split that fills the resident page (occupancy P-1 to P) returns with the
\* page and the header written: dirty is false and the index file holds the
\* in-memory page and indexCount.  One that leaves the occupancy below P
\* writes neither the page with the new entry nor the new count (the index
\* file is as it was, or as the flush of the page that was dirty before the
\* call left it) and returns with dirty true.
C32_FlushWhenFull ==
    [][(ret'.op = "append" /\ ret'.ok /\ ret'.path = "insert") =>
        /\ indexCount' = indexCount + 1
        /\ pageLoaded' /\ currentPageNumber' = ret'.index \div P
        /\ IF indexCount' % P = 0
           THEN ~pageDirty' /\ ResidentOnDisk(EngNext)
           ELSE /\ pageDirty'
                /\ indexFile' \in {indexFile, flushIndexPage(Eng).e.indexFile}
                /\ indexFile'.count < indexCount']_vars

\* C32's case: an insert at slot 0, which moved the entry there up, has
\* filled page 0, and the index file holds the page and the count.
C32_Witness ==
    /\ ret.op = "append" /\ ret.ok /\ ret.path = "insert" /\ ret.index = 0
    /\ indexCount = P /\ currentPageNumber = 0
    /\ ~pageDirty /\ ResidentOnDisk(Eng)

\* ------------------------------------------------------------------ C33
\* The count in the header of the index file, 0 when there is none.
DiskCount == IF indexFile.exists /\ indexFile.count # NoCount THEN indexFile.count ELSE 0

PagesOf(count) == {p \in 0..(count \div P) : EntriesInPage(count, p) > 0}

\* C34: a short read is recoverable only for the partial final page.
\* loadIndexPage(p) with a read that delivers fewer bytes than the page's
\* entries returns failure for a page that indexCount says is full, and
\* succeeds with the missing entries zero for the final page partly filled;
\* a get that had to load a full page during which the read fell short
\* returns failure, and no full page is made resident by it.
C34_ShortReadFails ==
    [][/\ \A p \in PagesOf(indexCount) :
            LET r == loadIndexPage(Faulty(Eng, ShortRead), p)
                n == EntriesInPage(indexCount, p)
            IN  IF n = P THEN ~r.ok
                ELSE r.ok /\ \A i \in 1..n : r.e.indexPage[i] = ZeroEntry
       /\ (/\ ret'.op = "get" /\ ret'.fault = ShortRead
           /\ pageLoaded /\ currentPageNumber' # currentPageNumber
           /\ EntriesInPage(indexCount, currentPageNumber') = P) => FALSE
       /\ (/\ ret'.op = "get" /\ ret'.fault = ShortRead
           /\ \E p \in PagesOf(indexCount) :
                 /\ EntriesInPage(indexCount, p) = P
                 /\ ~(pageLoaded /\ currentPageNumber = p)
                 /\ \E i \in 1..P : indexFile.entries[p * P + i].key = ret'.key)
              => ~ret'.ok]_vars

\* C34's case: a get of a stored key, during which the reads of the full
\* page 0 and of the last page delivered nothing, has returned: the resident
\* page holds zero entries where the index file holds the stored ones.
C34_Witness ==
    /\ ret.op = "get" /\ ret.fault = ShortRead /\ ret.key \in AppendedKeys
    /\ indexCount > P /\ pageLoaded /\ ~pageDirty
    /\ Len(indexFile.entries) = indexCount
    /\ \A i \in 1..EntriesInPage(indexCount, currentPageNumber) :
          /\ indexPage[i] = ZeroEntry
          /\ indexFile.entries[currentPageNumber * P + i] # ZeroEntry

\* ------------------------------------------------------------------ C35
\* The offsets at which the records of the log start, from off on: each
\* record is a LogEntryHeader and as many bytes as its length field says.
RECURSIVE RecordStarts(_, _)
RecordStarts(log, off) ==
    IF off + LogEntryHeaderSize > Len(log) THEN {}
    ELSE {off} \cup RecordStarts(log, off + LogEntryHeaderSize
                                        + FromLE(FileRead(log, off + 1, 2)))

\* C35: in every state reached by successful operations, the offset of the
\* entry at every position of [0, indexCount) is at least 6 and is the start
\* of a log record whose LogEntryHeader lies within the log file and carries
\* the key of the entry.
C35_OffsetsValid ==
    \A g \in Positions :
        LET entry == EntryAt(g)
        IN  /\ entry.offset >= DBHeaderSize
            /\ entry.offset \in RecordStarts(logFile, DBHeaderSize)
            /\ entry.offset + LogEntryHeaderSize <= Len(logFile)
            /\ ParseLogEntryHeader(StoredHeader(entry.offset)).key = entry.key

\* C35's case: the index, longer than a page, went through a split and a
\* reuse of a deleted key's entry.
C35_Witness ==
    /\ indexCount > P /\ hist.reused > 0
    /\ ret.op = "append" /\ ret.ok /\ ret.path = "split"
    /\ \A g \in Positions : EntryAt(g).offset \in RecordStarts(logFile, DBHeaderSize)

\* ------------------------------------------------------------------ C36
\* The LogEntryHeader of the record the entry at position g points at, if
\* the log file holds a whole one there.
HeaderHeld(g) == Len(StoredHeader(EntryAt(g).offset)) = LogEntryHeaderSize

RecordHeader(g) == ParseLogEntryHeader(StoredHeader(EntryAt(g).offset))

\* C36: in every state reached by successful append, deleteRecord and
\* updateStatus calls, the status of the index entry at every position of
\* [0, indexCount) is the status byte of the log record at the entry's
\* offset, also after an updateStatus, a deleteRecord and an append of the
\* same key.
C36_StatusAgrees ==
    \A g \in Positions :
        HeaderHeld(g) /\ EntryAt(g).status = RecordHeader(g).status

\* C36's case: a key whose status was set was deleted and appended again.
C36_Witness ==
    /\ ret.op = "append" /\ ret.ok /\ ret.path = "reuse"
    /\ \E g \in Positions : EntryAt(g).key = ret.key /\ EntryAt(g).status # 0

\* ------------------------------------------------------------------ C37
\* C37: in every state reached by successful operations, the DELETED bit of
\* the index entry at every position of [0, indexCount) is the DELETED bit
\* of the internal_status byte of the log record at the entry's offset.
C37_TombstoneAgrees ==
    \A g \in Positions :
        /\ HeaderHeld(g)
        /\ IsDeleted(EntryAt(g).internal_status)
              = IsDeleted(RecordHeader(g).internal_status)

\* C37's case: a key was appended below a deleted key of the same page, so
\* that its entry took the slot the deleted entry had.
C37_Witness ==
    /\ ret.op = "append" /\ ret.ok /\ ret.path = "insert"
    /\ ret.index % P < P - 1 /\ ret.index + 1 < indexCount
    /\ IsDeleted(RecordHeader(ret.index + 1).internal_status)
    /\ EntryAt(ret.index).key = ret.key

\* ------------------------------------------------------------------ C38
\* The index file of e holds the occupied slots of the page that is
\* resident in the engine before.
PageWritten(before, e) ==
    LET n == EntriesInPage(before.indexCount, before.currentPageNumber)
    IN  /\ Len(e.indexFile.entries) >= before.currentPageNumber * P + n
        /\ \A i \in 1..n :
              e.indexFile.entries[before.currentPageNumber * P + i] = before.indexPage[i]

\* C38: the page cache follows Empty -> Loaded(p) -> Dirty(p) -> Loaded(p).
\* Dirty implies loaded in every state.  A successful loadIndexPage(p) ends
\* with page p resident and dirty false, the page that was resident and
\* dirty written to the index file first.  open resets the cache: it returns
\* with dirty false and page number 0, with no page loaded and count 0 or
\* with page 0 as the index file holds it.  In every other call the
\* resident page number changes only by such a load: a page is resident
\* afterwards, and the page that was dirty before is in the index file
\* (unless a split of the same call wrote over it).
C38_CacheStateMachine ==
    [][/\ pageDirty => pageLoaded
       /\ pageDirty' => pageLoaded'
       /\ \A p \in 0..(indexCount \div P) :
             LET r == loadIndexPage(Eng, p)
             IN  r.ok => /\ r.e.pageLoaded /\ ~r.e.pageDirty
                         /\ r.e.currentPageNumber = p
                         /\ pageDirty => PageWritten(Eng, r.e)
                         /\ ~pageDirty => r.e.indexFile = indexFile
       /\ ret'.op = "open" =>
             /\ ~pageDirty' /\ currentPageNumber' = 0
             /\ IF pageLoaded' THEN ResidentOnDisk(EngNext) ELSE indexCount' = 0
       /\ (ret'.op # "open" /\ currentPageNumber' # currentPageNumber) =>
             /\ pageLoaded'
             /\ (pageLoaded /\ pageDirty /\ ret'.path # "split") =>
                    PageWritten(Eng, EngNext)]_vars

\* C38's case: a later open has reset the cache and made page 0, which is
\* full, resident again.
C38_Witness ==
    /\ ret.op = "open" /\ ret.ok /\ hist.opens > 1
    /\ pageLoaded /\ ~pageDirty /\ currentPageNumber = 0 /\ indexCount >= P

\* ---- the backend handles across calls during which a backend call may fail
\* C39: whenever a public operation has returned, on success or on a
\* failure, the log backend and the index backend hold no open file, and no
\* open of the run has reused a file left open by an earlier one, so that
\* every open was performed with the mode it asked for.  Once a page is
\* full, the same holds of the engine as each append that can be made now
\* would leave it, a page split included, with any one backend call failing.
C39_HandlesClosed ==
    /\ handles.log = "" /\ handles.index = "" /\ ~handles.reused
    /\ (hist.opens > 0 /\ indexCount >= P) =>
            \A key \in Keys, recordType \in RecordTypes, record \in Payloads,
               fault \in AppendFaults :
                append(Faulty(Eng, fault), key, recordType, record).e.handles
                    = NoHandles

\* C39's case: an append has failed after its open of the log had
\* succeeded (the write of the payload failed), and both handles are closed.
C39_Witness ==
    /\ ret.op = "append" /\ ~ret.ok /\ ret.path = "fail"
    /\ ret.fault = "append.writeRecord"
    /\ handles = NoHandles
====
